---------------------------- MODULE Spec2Model ----------------------------
(***************************************************************************)
(* Model of the retrieval core of lib-ai: FixedVectorStore                 *)
(* (src/app/core/vector_store.py) with its two on-disk artifacts           *)
(* chunks.json and embeddings.npy, the segmenter AccuratePDFIngestor       *)
(* (src/app/core/accurate_ingestor.py) and the question answering of       *)
(* AccurateRAGSystem (src/app/core/accurate_rag.py).                       *)
(*                                                                         *)
(* Representation.                                                         *)
(*  - a text is a sequence of character codes: the code of a character is  *)
(*    its position in Alphabet (1 = 'a', 2 = 'b', 11 = 'A', 12 = 'B');     *)
(*    Codes("ab") is the text <<1, 2>>;                                    *)
(*  - a chunk is a record [text, source], with the other metadata fields   *)
(*    (section, chunk_id, page, content_type) and importance as further    *)
(*    fields of the record where the segmenter wrote them;                 *)
(*  - a vector row is a record [v, unit]: v is the sequence of components  *)
(*    (integers, or NaN), and unit = TRUE says that the row is v divided   *)
(*    by its L2 norm (the rows the fallback embedder produces);            *)
(*  - a matrix is [none, w, rows]: none = TRUE is Python's None, else w is *)
(*    the number of columns and rows the sequence of rows;                 *)
(*  - a similarity score is the real number sgn * sqrt(num / den), kept    *)
(*    as the record [sgn, num, den] with num/den in lowest terms, so that  *)
(*    two scores are equal exactly when their records are equal.           *)
(*    Floating-point rounding is not modelled.                             *)
(***************************************************************************)
EXTENDS Integers, Sequences, FiniteSets, TLC

\* ------------------------------------------------------------------ bounds
\* longest chunk list the store may hold
MaxChunks == 2
\* longest chunk list document ingestion may build
MaxIngested == 4
\* most rows the stored matrix may hold
MaxRows == 2
\* largest k passed to a search
MaxK == 2
\* most entries the search cache holds before searches of new keys stop
MaxCache == 1

\* the number of searches of a sequential run on a nearly full cache
MaxSearches == 3

\* the number of PDF files a reindexing finds at most, and of output lines
\* of a model pull
MaxFiles == 3
\* number of columns of an embedding (384 in the source, scaled down)
EmbDim == 2

\* --------------------------------------------------------------- constants
\* np.nan: a component that is not a number
NaN == 0 - 1000
\* self.cache_size
cache_size == 50
\* len(text_hash): a sha256 hex digest has 64 characters
DigestLen == 64

\* ----------------------------------------------------------------- numbers
Min(a, b) == IF a < b THEN a ELSE b

RECURSIVE GCD(_, _)
GCD(a, b) == IF b = 0 THEN a ELSE GCD(b, a % b)

\* a/b < c/d for a, c >= 0 and b, d > 0, by continued fractions (no products)
RECURSIVE FracLess(_, _, _, _)
FracLess(a, b, c, d) ==
    LET qa == a \div b
        qc == c \div d
        ra == a % b
        rc == c % d
    IN  IF qa # qc THEN qa < qc
        ELSE IF rc = 0 THEN FALSE
        ELSE IF ra = 0 THEN TRUE
        ELSE FracLess(d, rc, b, ra)

\* all sequences over S of length at most n
SeqsUpTo(S, n) == UNION {[1..m -> S] : m \in 0..n}

RECURSIVE SumSeq(_)
SumSeq(s) == IF s = <<>> THEN 0 ELSE Head(s) + SumSeq(Tail(s))

\* ------------------------------------------------------------------- texts
\* the characters of the texts, each at the position that is its code
Alphabet ==
    "abcdefghijABCDEFGHIJklmnopqrstuvwxyzKLMNOPQRSTUVWXYZ 0123456789.!?:;,-_[]\n"

\* the code of the character c (a string of length 1)
Ord(c) == CHOOSE i \in 1..Len(Alphabet) : SubSeq(Alphabet, i, i) = c

\* the text of a string literal
Codes(str) == [i \in 1..Len(str) |-> Ord(SubSeq(str, i, i))]

\* str.lower(): of the character codes, 'A'..'J' are 11..20, 'K'..'Z' 37..52
Lower(t) ==
    LET LowerChar(c) ==
            IF c > 10 /\ c <= 20 THEN c - 10
            ELSE IF c > 36 /\ c <= 52 THEN c - 16
            ELSE c
    IN  [i \in 1..Len(t) |-> LowerChar(t[i])]

\* t[i:].startswith(sub), i counted from 1
MatchAt(t, sub, i) ==
    /\ i + Len(sub) - 1 <= Len(t)
    /\ \A j \in 1..Len(sub) : t[i + j - 1] = sub[j]

\* sub in t
Contains(t, sub) == \E i \in 1..(Len(t) + 1) : MatchAt(t, sub, i)

\* t.count(sub): non-overlapping occurrences, scanning from position i
RECURSIVE CountFrom(_, _, _)
CountFrom(t, sub, i) ==
    IF sub = <<>> THEN Len(t) + 2 - i
    ELSE IF i + Len(sub) - 1 > Len(t) THEN 0
    ELSE IF MatchAt(t, sub, i) THEN 1 + CountFrom(t, sub, i + Len(sub))
    ELSE CountFrom(t, sub, i + 1)

\* ----------------------------------------------------------------- vectors
\* a row given by its components
Row(v) == [v |-> v, unit |-> FALSE]

\* np.nan_to_num(x, nan=0.0) on one row
NanToNumRow(r) ==
    [v |-> [i \in 1..Len(r.v) |-> IF r.v[i] = NaN THEN 0 ELSE r.v[i]],
     unit |-> r.unit]

\* Python's None in place of a matrix
NoMatrix == [none |-> TRUE, w |-> 0, rows |-> <<>>]

\* a 2-D array of the given width
Matrix(w, rows) == [none |-> FALSE, w |-> w, rows |-> rows]

\* np.nan_to_num(x, nan=0.0) on a matrix
NanToNum(m) ==
    [none |-> m.none, w |-> m.w,
     rows |-> [i \in 1..Len(m.rows) |-> NanToNumRow(m.rows[i])]]

\* np.any(np.isnan(m))
HasNaN(m) ==
    /\ ~m.none
    /\ \E i \in 1..Len(m.rows) : \E j \in 1..Len(m.rows[i].v) : m.rows[i].v[j] = NaN

\* np.vstack([a, b]) when the widths agree
VStack(a, b) == Matrix(a.w, a.rows \o b.rows)

Dot(a, b) == SumSeq([i \in 1..Len(a) |-> a[i] * b[i]])

NormSq(a) == Dot(a, a)

\* ---------------------------------------------------------------- embedder
\* hashlib.sha256(text.encode()).hexdigest(): a deterministic stand-in that
\* yields DigestLen hexadecimal characters (as character codes)
HexDigest(text) ==
    LET seed == SumSeq([i \in 1..Len(text) |-> (i + 2) * text[i]]) + Len(text)
        \* ord() of the d-th hexadecimal digit, d in 0..15
        HexOrd(d) == IF d < 10 THEN 48 + d ELSE 87 + d
    IN  [i \in 1..DigestLen |-> HexOrd((seed * (2 * i + 1) + i * i) % 16)]

\* one pass of the loop body of _create_simple_embeddings: the embedding of
\* one text.  emb[i] = ord(c)/255 - 0.5 is kept as 510 * emb[i] = 2*ord(c) - 255;
\* after the division by the norm the row is [v, unit |-> TRUE].
SimpleEmbedding(text) ==
    LET text_hash == HexDigest(text)
        emb == [i \in 1..EmbDim |->
                   2 * text_hash[((i - 1) % Len(text_hash)) + 1] - 255]
    IN  IF NormSq(emb) > 0 THEN [v |-> emb, unit |-> TRUE]
        ELSE [v |-> emb, unit |-> FALSE]

\* _create_simple_embeddings: np.array of one embedding per chunk, in order
CreateSimpleEmbeddings(cs) ==
    Matrix(EmbDim, [i \in 1..Len(cs) |-> SimpleEmbedding(cs[i].text)])

\* ------------------------------------------------------------------ scores
\* the similarity field of a result that carries none (keyword search)
NoScore == [sgn |-> 0, num |-> 0, den |-> 0]

\* one entry of similarities = np.dot(db_norm, query_norm.T): the cosine of
\* row a and query q, a zero magnitude being replaced by 1
Cosine(a, q) ==
    LET d  == Dot(a, q)
        na == IF NormSq(a) = 0 THEN 1 ELSE NormSq(a)
        nq == IF NormSq(q) = 0 THEN 1 ELSE NormSq(q)
        g  == GCD(d * d, na * nq)
    IN  IF d = 0 THEN [sgn |-> 0, num |-> 0, den |-> 1]
        ELSE [sgn |-> IF d < 0 THEN 0 - 1 ELSE 1, num |-> (d * d) \div g, den |-> (na * nq) \div g]

\* s < t as real numbers
ScoreLess(s, t) ==
    IF s.sgn # t.sgn THEN s.sgn < t.sgn
    ELSE IF s.sgn = 1 THEN FracLess(s.num, s.den, t.num, t.den)
    ELSE IF s.sgn = 0 - 1 THEN FracLess(t.num, t.den, s.num, s.den)
    ELSE FALSE

\* ------------------------------------------------------------------ inputs
\* the chunks that callers pass to add_chunks: "ab" from source "a", and
\* "A" from source "b"
ChunkA == [text |-> <<1, 2>>, source |-> <<1>>]

ChunkB == [text |-> <<11>>, source |-> <<2>>]

ChunkPool == {ChunkA, ChunkB}

\* rows of EmbDim columns: (1, 0, .., 0) and (NaN, 1, .., 1)
RowE1 == Row([i \in 1..EmbDim |-> IF i = 1 THEN 1 ELSE 0])

RowNaN1 == Row([i \in 1..EmbDim |-> IF i = 1 THEN NaN ELSE 1])

WideRows == {RowE1, RowNaN1}

\* a row of one column, which cannot be stacked onto rows of EmbDim columns
NarrowRows == {Row(<<1>>)}

\* the 2-D arrays of at most n rows
Arrays(n) ==
    {Matrix(EmbDim, rows) : rows \in SeqsUpTo(WideRows, n)}
      \cup {Matrix(1, rows) : rows \in SeqsUpTo(NarrowRows, n)}

\* the embeddings argument of one add_chunks call: None, or a 2-D array of
\* no row or one row (longer arguments are a sequence of such calls)
VectorInputs == {NoMatrix} \cup Arrays(1)

\* the same with a single row value of EmbDim columns
FewVectorInputs ==
    {NoMatrix}
      \cup {Matrix(EmbDim, rows) : rows \in SeqsUpTo({RowNaN1}, 1)}
      \cup {Matrix(1, rows) : rows \in SeqsUpTo(NarrowRows, 1)}

\* the chunks argument of one add_chunks call: no chunk or one chunk
ChunkInputs == SeqsUpTo(ChunkPool, 1)

\* query embeddings (1-D arrays)
Queries == {r.v : r \in WideRows}

\* the k argument of the searches
Ks == 0..MaxK

\* k = 0, k = 1 and the largest k
FewKs == {0, 1, MaxK}

\* keywords: "a", "A", "c"
Keywords == {<<1>>, <<11>>, <<3>>}

\* the keyword "A"
OneKeyword == {<<11>>}

\* ------------------------------------------------------------------- state
VARIABLES
    chunks,           \* self.chunks
    embeddings,       \* self.embeddings
    loaded,           \* self.loaded
    search_cache,     \* self._search_cache, in insertion order
    chunks_file,      \* store_path / "chunks.json"
    embeddings_file,  \* store_path / "embeddings.npy"
    ret,              \* the last event: the call, its arguments and its outcome
    pc,               \* position in a scenario ("free" outside one); with
                      \* concurrent readers, the position of each reader
    given             \* the chunks and vectors a scenario adds; with
                      \* concurrent readers, the local variables of each

vars == <<chunks, embeddings, loaded, search_cache, chunks_file,
          embeddings_file, ret, pc, given>>

mem == <<chunks, embeddings, loaded, search_cache>>

disk == <<chunks_file, embeddings_file>>

NoChunksData == [chunks |-> <<>>, count |-> 0, version |-> ""]

\* a file that does not exist
NoChunksFile == [exists |-> FALSE, readable |-> TRUE, data |-> NoChunksData]

NoEmbeddingsFile == [exists |-> FALSE, readable |-> TRUE, data |-> NoMatrix]

\* what a call left behind for its caller: whether it raised, the boolean it
\* returned (rv), the list it returned (val); arg is the query or keyword of
\* a search; for an add_chunks it says how the two arguments compare
Ret(op, raised, rv, val, arg, k) ==
    [op |-> op, raised |-> raised, rv |-> rv, val |-> val, arg |-> arg, k |-> k]

NoGiven == [chunks |-> <<>>, vectors |-> NoMatrix]

\* FixedVectorStore.__init__: the fields of a new store object
Construct ==
    /\ chunks' = <<>>
    /\ embeddings' = NoMatrix
    /\ loaded' = FALSE
    /\ search_cache' = <<>>
    /\ ret' = Ret("init", FALSE, TRUE, <<>>, <<>>, 0)
    /\ UNCHANGED disk

\* a new store object on an empty store directory
Init ==
    /\ chunks = <<>>
    /\ embeddings = NoMatrix
    /\ loaded = FALSE
    /\ search_cache = <<>>
    /\ chunks_file = NoChunksFile
    /\ embeddings_file = NoEmbeddingsFile
    /\ ret = Ret("init", FALSE, TRUE, <<>>, <<>>, 0)
    /\ pc = "free"
    /\ given = NoGiven

\* ------------------------------------------------------------ add_chunks
\* np.vstack raises ValueError when the column counts differ
CanStack(a, b) == a.w = b.w

\* the arguments of an add_chunks call as ret.arg keeps them: <<>> when
\* embeddings is None, else <<d>> with d = 0 when len(chunks) = len(embeddings)
\* and d = 1 when the two differ
AddArg(new, vecs) ==
    IF vecs.none THEN <<>>
    ELSE IF Len(new) = Len(vecs.rows) THEN <<0>> ELSE <<1>>

AddChunks(new, vecs) ==
    LET clean == NanToNum(vecs) IN
    /\ Len(chunks) + Len(new) <= MaxChunks
    /\ Len(embeddings.rows) + Len(vecs.rows) <= MaxRows
    /\ chunks' = chunks \o new
    /\ IF vecs.none
         THEN /\ embeddings' = embeddings
              /\ loaded' = TRUE
              /\ search_cache' = <<>>
              /\ ret' = Ret("add", FALSE, TRUE, <<>>, AddArg(new, vecs), 0)
         ELSE IF embeddings.none
         THEN /\ embeddings' = clean
              /\ loaded' = TRUE
              /\ search_cache' = <<>>
              /\ ret' = Ret("add", FALSE, TRUE, <<>>, AddArg(new, vecs), 0)
         ELSE IF CanStack(embeddings, clean)
         THEN /\ embeddings' = VStack(embeddings, clean)
              /\ loaded' = TRUE
              /\ search_cache' = <<>>
              /\ ret' = Ret("add", FALSE, TRUE, <<>>, AddArg(new, vecs), 0)
         ELSE \* ValueError leaves add_chunks after self.chunks.extend
              /\ ret' = Ret("add", TRUE, FALSE, <<>>, AddArg(new, vecs), 0)
              /\ UNCHANGED <<embeddings, loaded, search_cache>>
    /\ UNCHANGED disk

\* ------------------------------------------------------------------ clear
\* clear, rc and re saying whether unlink raises on chunks.json and on
\* embeddings.npy. file.unlink() sits inside "try: ... except: pass": the
\* file is gone, unless unlink raises (a file in use, a read-only directory)
\* and the file stays
ClearFiles(rc, re) ==
    LET Unlinked(file, gone, raises) == IF file.exists /\ raises THEN file ELSE gone IN
    /\ chunks' = <<>>
    /\ embeddings' = NoMatrix
    /\ search_cache' = <<>>
    /\ loaded' = FALSE
    /\ chunks_file' = Unlinked(chunks_file, NoChunksFile, rc)
    /\ embeddings_file' = Unlinked(embeddings_file, NoEmbeddingsFile, re)
    /\ ret' = Ret("clear", FALSE, TRUE, <<>>, <<>>, 0)

\* clear when every unlink succeeds
Clear == ClearFiles(FALSE, FALSE)

\* ------------------------------------------------------------ save / load
\* ChunksData writing the records in reverse order
ChunksData_Reversed(cs) ==
    [chunks |-> [i \in 1..Len(cs) |-> cs[Len(cs) + 1 - i]],
     count |-> Len(cs), version |-> "2.1"]

\* the document json.dump writes to chunks.json
ChunksData(cs) == [chunks |-> cs, count |-> Len(cs), version |-> "2.1"]

\* chunks.json as save writes it
SavedChunksFile(cs) == [exists |-> TRUE, readable |-> TRUE, data |-> ChunksData(cs)]

\* embeddings.npy as save writes it
SavedEmbeddingsFile(m) == [exists |-> TRUE, readable |-> TRUE, data |-> NanToNum(m)]

Save ==
    /\ chunks_file' = SavedChunksFile(chunks)
    /\ embeddings_file' =
         IF embeddings.none THEN embeddings_file
         ELSE SavedEmbeddingsFile(embeddings)
    /\ ret' = Ret("save", FALSE, TRUE, <<>>, <<>>, 0)
    /\ UNCHANGED mem

\* save when a write raises: the "except Exception" returns False. step
\* names the statement that raised: open(chunks_file, 'w') leaves the
\* directory as it was; json.dump leaves a truncated chunks.json; np.save
\* (reached when there are vectors) leaves chunks.json written and
\* embeddings.npy as it was (np.save_open) or truncated (np.save)
SaveFailure(step) ==
    /\ step \in {"np.save_open", "np.save"} => ~embeddings.none
    /\ chunks_file' =
         IF step = "open" THEN chunks_file
         ELSE IF step = "json.dump"
         THEN [exists |-> TRUE, readable |-> FALSE, data |-> NoChunksData]
         ELSE SavedChunksFile(chunks)
    /\ embeddings_file' =
         IF step = "np.save"
         THEN [exists |-> TRUE, readable |-> FALSE, data |-> NoMatrix]
         ELSE embeddings_file
    /\ ret' = Ret("save", FALSE, FALSE, <<>>, <<step>>, 0)
    /\ UNCHANGED mem

\* EmbeddingsAfterRead without the np.nan_to_num after np.load
EmbeddingsAfterRead_Raw(cur) ==
    IF embeddings_file.exists
    THEN IF embeddings_file.readable THEN embeddings_file.data
         ELSE NoMatrix
    ELSE cur

\* the embeddings a load has in hand after the "if embeddings_file.exists"
\* block: the array read, None when np.load fails, and the value
\* self.embeddings already had when the file does not exist
EmbeddingsAfterRead(cur) ==
    IF embeddings_file.exists
    THEN IF embeddings_file.readable THEN NanToNum(embeddings_file.data)
         ELSE NoMatrix
    ELSE cur

\* load when chunks.json exists and json.load succeeds
LoadChunks ==
    LET cs  == chunks_file.data.chunks
        ld  == Len(cs) > 0
        emb == EmbeddingsAfterRead(embeddings)
    IN  /\ chunks' = cs
        /\ loaded' = ld
        /\ embeddings' =
             IF ld /\ emb.none /\ cs # <<>> THEN CreateSimpleEmbeddings(cs)
             ELSE emb
        /\ ret' = Ret("load", FALSE, TRUE, <<>>, <<>>, 0)

\* LoadNoData forgetting self.embeddings = None
LoadNoData_KeepsVectors ==
    /\ chunks' = <<>>
    /\ embeddings' = embeddings
    /\ loaded' = FALSE
    /\ ret' = Ret("load", FALSE, TRUE, <<>>, <<>>, 0)

\* load when chunks.json does not exist: "No data found"
LoadNoData ==
    /\ chunks' = <<>>
    /\ embeddings' = NoMatrix
    /\ loaded' = FALSE
    /\ ret' = Ret("load", FALSE, TRUE, <<>>, <<>>, 0)

\* LoadError without the assignments of the except block
LoadError_NoReset ==
    /\ UNCHANGED <<chunks, embeddings, loaded>>
    /\ ret' = Ret("load", FALSE, FALSE, <<>>, <<>>, 0)

\* load when json.load raises: the outer except
LoadError ==
    /\ chunks' = <<>>
    /\ embeddings' = NoMatrix
    /\ loaded' = FALSE
    /\ ret' = Ret("load", FALSE, FALSE, <<>>, <<>>, 0)

Load ==
    /\ IF chunks_file.exists
       THEN IF chunks_file.readable THEN LoadChunks ELSE LoadError
       ELSE LoadNoData
    /\ UNCHANGED <<search_cache, disk>>

\* the environment damages embeddings.npy so that np.load raises
CorruptEmbeddingsFile ==
    /\ embeddings_file.exists
    /\ embeddings_file.readable
    /\ embeddings_file' = [exists |-> TRUE, readable |-> FALSE, data |-> NoMatrix]
    /\ ret' = Ret("corrupt", FALSE, TRUE, <<>>, <<>>, 0)
    /\ UNCHANGED <<mem, chunks_file>>

\* the environment damages chunks.json so that json.load raises
CorruptChunksFile ==
    /\ chunks_file.exists
    /\ chunks_file.readable
    /\ chunks_file' = [exists |-> TRUE, readable |-> FALSE, data |-> NoChunksData]
    /\ ret' = Ret("corrupt", FALSE, TRUE, <<>>, <<>>, 0)
    /\ UNCHANGED <<mem, embeddings_file>>

\* ------------------------------------------------------ similarity_search
\* one returned entry: a copy of the chunk with its similarity attached
Hit(chunk, score) == [chunk |-> chunk, similarity |-> score]

\* cache_key = f"{query_hash}_{k}"
CacheKey(qc, k) == [q |-> qc, k |-> k]

CacheHas(key) == \E i \in 1..Len(search_cache) : search_cache[i].key = key

CacheGet(key) ==
    search_cache[CHOOSE i \in 1..Len(search_cache) : search_cache[i].key = key].val

\* CachePut removing the most recently inserted entry of a full cache
CachePut_PopNewest(key, val) ==
    (IF Len(search_cache) >= cache_size
     THEN SubSeq(search_cache, 1, Len(search_cache) - 1)
     ELSE search_cache)
      \o <<[key |-> key, val |-> val]>>


\* if len(cache) >= cache_size: pop the first key; then cache[key] = results
CachePut(key, val) ==
    (IF Len(search_cache) >= cache_size THEN Tail(search_cache) ELSE search_cache)
      \o <<[key |-> key, val |-> val]>>

\* the index arrays that argpartition(sims, -m)[-m:], reordered by
\* argsort(..)[::-1], can produce: take indices, every one scoring at least
\* as high as every index left out, in non-increasing score order (the
\* order among equal scores is the library's choice)
TopIndices(sims, take) ==
    {t \in [1..take -> 1..Len(sims)] :
        /\ \A i, j \in 1..take : i # j => t[i] # t[j]
        /\ \A i \in 1..take : \A j \in 1..take :
              i < j => ~ScoreLess(sims[t[i]], sims[t[j]])
        /\ \A i \in 1..take : \A x \in 1..Len(sims) :
              (\A j \in 1..take : t[j] # x) => ~ScoreLess(sims[t[i]], sims[x])}

\* the result loop: indices beyond valid_chunks are skipped
RECURSIVE Results(_, _, _)
Results(top, sims, valid_chunks) ==
    IF top = <<>> THEN <<>>
    ELSE (IF Head(top) <= Len(valid_chunks)
          THEN <<Hit(valid_chunks[Head(top)], sims[Head(top)])>>
          ELSE <<>>) \o Results(Tail(top), sims, valid_chunks)

\* similarities = np.dot(db_norm, query_norm.T).flatten()
Similarities(qc) ==
    [i \in 1..Len(embeddings.rows) |-> Cosine(embeddings.rows[i].v, qc)]

\* the try block of similarity_search on a cache miss: the set of outcomes
\* [val, stored], stored saying whether val went into the cache
SearchOutcomes(qc, k) ==
    LET n == Len(embeddings.rows)
        \* how many indices the top-k selection keeps: k is first cut to n,
        \* and a[-m:] with m = 0 is all of a
        kk == IF k > n THEN n ELSE k
        m  == Min(kk, n)
        take == IF m = 0 THEN n ELSE m
    IN
    IF embeddings.w # Len(qc)
    THEN {[val |-> <<>>, stored |-> FALSE]}    \* np.dot raises
    ELSE IF n = 0
    THEN {[val |-> <<>>, stored |-> FALSE]}    \* not np.any(valid_indices)
    ELSE IF Len(chunks) > n
    THEN {[val |-> <<>>, stored |-> FALSE]}    \* IndexError in valid_chunks
    ELSE {[val |-> Results(t, Similarities(qc), chunks), stored |-> TRUE] :
             t \in TopIndices(Similarities(qc), take)}

\* SimilarityOutcomes consulting the cache before the empty-store test
SimilarityOutcomes_CacheFirst(q, k) ==
    LET qc  == NanToNumRow(Row(q)).v
        key == CacheKey(qc, k)
    IN  IF CacheHas(key)
        THEN {[val |-> CacheGet(key), stored |-> FALSE]}
        ELSE IF ~loaded \/ chunks = <<>> \/ embeddings.none
        THEN {[val |-> <<>>, stored |-> FALSE]}
        ELSE SearchOutcomes(qc, k)

\* the outcomes of similarity_search(q, k) in the current state
SimilarityOutcomes(q, k) ==
    LET qc  == NanToNumRow(Row(q)).v
        key == CacheKey(qc, k)
    IN  IF ~loaded \/ chunks = <<>> \/ embeddings.none
        THEN {[val |-> <<>>, stored |-> FALSE]}
        ELSE IF CacheHas(key)
        THEN {[val |-> CacheGet(key), stored |-> FALSE]}
        ELSE SearchOutcomes(qc, k)

\* similarity_search(q, k) taking outcome o: a computed result goes into the
\* cache, and the call returns the result
SimilaritySearchStep(q, k, o) ==
    /\ search_cache' =
         IF o.stored
         THEN CachePut(CacheKey(NanToNumRow(Row(q)).v, k), o.val)
         ELSE search_cache
    /\ ret' = Ret("similarity_search", FALSE, TRUE, o.val, q, k)
    /\ UNCHANGED <<chunks, embeddings, loaded, disk>>

\* similarity_search(q, k) while the cache holds fewer than MaxCache entries
SimilaritySearch(q, k) ==
    \E o \in SimilarityOutcomes(q, k) :
        /\ o.stored => Len(search_cache) < MaxCache
        /\ SimilaritySearchStep(q, k, o)

\* ------------------------------------------------------ search_by_keyword
\* the score of one chunk for a lower-cased keyword
KeywordScore(chunk, keyword_lower) ==
    (IF Contains(Lower(chunk.text), keyword_lower)
     THEN CountFrom(Lower(chunk.text), keyword_lower, 1) * 3 ELSE 0)
    + (IF Contains(Lower(chunk.source), keyword_lower) THEN 2 ELSE 0)

\* scored_chunks: the (score, chunk) pairs with score > 0, in chunk order
RECURSIVE ScoredChunks(_, _)
ScoredChunks(cs, keyword_lower) ==
    IF cs = <<>> THEN <<>>
    ELSE (IF KeywordScore(Head(cs), keyword_lower) > 0
          THEN <<[score |-> KeywordScore(Head(cs), keyword_lower), chunk |-> Head(cs)]>>
          ELSE <<>>) \o ScoredChunks(Tail(cs), keyword_lower)

\* InsertByScore putting e in front of the entries of equal score
RECURSIVE InsertByScore_TiesFirst(_, _)
InsertByScore_TiesFirst(sorted, e) ==
    IF sorted = <<>> THEN <<e>>
    ELSE IF Head(sorted).score > e.score
    THEN <<Head(sorted)>> \o InsertByScore_TiesFirst(Tail(sorted), e)
    ELSE <<e>> \o sorted

\* insert e behind every entry whose score is at least e's
RECURSIVE InsertByScore(_, _)
InsertByScore(sorted, e) ==
    IF sorted = <<>> THEN <<e>>
    ELSE IF Head(sorted).score >= e.score
    THEN <<Head(sorted)>> \o InsertByScore(Tail(sorted), e)
    ELSE <<e>> \o sorted

\* scored_chunks.sort(key=score, reverse=True): stable
RECURSIVE SortByScore(_)
SortByScore(s) ==
    IF s = <<>> THEN <<>>
    ELSE InsertByScore(SortByScore(SubSeq(s, 1, Len(s) - 1)), s[Len(s)])

\* the value search_by_keyword(keyword, k) returns in the current state
KeywordResult(keyword, k) ==
    IF ~loaded THEN <<>>
    ELSE LET sorted == SortByScore(ScoredChunks(chunks, Lower(keyword)))
         IN  [i \in 1..Min(k, Len(sorted)) |-> Hit(sorted[i].chunk, NoScore)]

SearchByKeyword(keyword, k) ==
    /\ ret' = Ret("search_by_keyword", FALSE, TRUE, KeywordResult(keyword, k), keyword, k)
    /\ UNCHANGED <<mem, disk>>

\* -------------------------------------------------------------- get_stats
\* the dict get_stats returns; embeddings_shape as the pair (rows, columns)
Stats ==
    LET \* chunk.get("metadata", {}).get("source", "unknown")
        source(chunk) ==
            IF "source" \in DOMAIN chunk THEN chunk.source ELSE Codes("unknown")
        \* chunk.get("metadata", {}).get("chunk_type", "paragraph")
        chunk_type(chunk) ==
            IF "chunk_type" \in DOMAIN chunk THEN chunk.chunk_type ELSE "paragraph"
        \* the dict the loop builds from the keys of the chunks: each key
        \* that occurs, with the number of chunks having it
        Tally(keys) ==
            [key \in {keys[i] : i \in 1..Len(keys)} |->
                Cardinality({i \in 1..Len(keys) : keys[i] = key})]
    IN
    IF ~loaded THEN [total_chunks |-> 0, loaded |-> FALSE]
    ELSE [total_chunks |-> Len(chunks),
          sources |-> Tally([i \in 1..Len(chunks) |-> source(chunks[i])]),
          chunk_types |-> Tally([i \in 1..Len(chunks) |-> chunk_type(chunks[i])]),
          loaded |-> TRUE,
          embeddings_shape |-> IF embeddings.none THEN <<>>
                               ELSE <<Len(embeddings.rows), embeddings.w>>,
          has_nan |-> ~embeddings.none /\ HasNaN(embeddings)]

\* FixedVectorStore.get_stats
GetStats ==
    /\ ret' = Ret("get_stats", FALSE, TRUE, Stats, <<>>, 0)
    /\ UNCHANGED <<mem, disk>>

\* --------------------------------------------------------- classification
\* the first category of an ordered keyword table one of whose keywords
\* occurs in the lower-cased text; "general" when none does
FirstCategory(table, text_lower) ==
    LET hits == {i \in 1..Len(table) :
                    \E j \in 1..Len(table[i].keywords) :
                        Contains(text_lower, table[i].keywords[j])}
    IN  IF hits = {} THEN "general"
        ELSE table[CHOOSE i \in hits : \A h \in hits : i <= h].category

\* AccuratePDFIngestor._classify_content: the if/elif chain as a table
content_keywords ==
    <<[category |-> "fines",
       keywords |-> <<Codes("fine"), Codes("overdue"), Codes("penalty"), Codes("charge")>>],
      [category |-> "borrowing",
       keywords |-> <<Codes("borrow"), Codes("loan"), Codes("renew"), Codes("return")>>],
      [category |-> "academic_integrity",
       keywords |-> <<Codes("plagiarism"), Codes("turnitin"), Codes("citation")>>],
      [category |-> "hours",
       keywords |-> <<Codes("hour"), Codes("open"), Codes("close"), Codes("schedule")>>],
      [category |-> "eresources",
       keywords |-> <<Codes("access"), Codes("myloft"), Codes("e-resource"), Codes("database")>>],
      [category |-> "membership",
       keywords |-> <<Codes("staff"), Codes("student"), Codes("category"), Codes("maximum")>>],
      [category |-> "referencing",
       keywords |-> <<Codes("apa"), Codes("reference"), Codes("citation"), Codes("format")>>]>>

ClassifyContent(text) == FirstCategory(content_keywords, Lower(text))

\* the values _classify_content can return: the enum of content_type
ContentTypes ==
    {content_keywords[i].category : i \in 1..Len(content_keywords)} \cup {"general"}

\* AccurateRAGSystem.question_patterns, in the order of the dict
question_patterns ==
    <<[category |-> "borrowing",
       keywords |-> <<Codes("borrow"), Codes("loan"), Codes("renew"), Codes("return"),
                      Codes("due date"), Codes("how many books")>>],
      [category |-> "fines",
       keywords |-> <<Codes("fine"), Codes("overdue"), Codes("penalty"), Codes("charge"),
                      Codes("ksh")>>],
      [category |-> "hours",
       keywords |-> <<Codes("open"), Codes("close"), Codes("hour"), Codes("time"),
                      Codes("schedule")>>],
      [category |-> "plagiarism",
       keywords |-> <<Codes("plagiarism"), Codes("turnitin"), Codes("similarity"),
                      Codes("citation")>>],
      [category |-> "eresources",
       keywords |-> <<Codes("e-resource"), Codes("database"), Codes("myloft"),
                      Codes("past paper"), Codes("exam")>>],
      [category |-> "membership",
       keywords |-> <<Codes("join"), Codes("member"), Codes("staff"), Codes("student"),
                      Codes("category"), Codes("id card")>>],
      [category |-> "location",
       keywords |-> <<Codes("floor"), Codes("shelf"), Codes("find"), Codes("location"),
                      Codes("call number")>>],
      [category |-> "referencing",
       keywords |-> <<Codes("apa"), Codes("reference"), Codes("citation"), Codes("format")>>]>>

\* AccurateRAGSystem.classify_question
ClassifyQuestion(question) == FirstCategory(question_patterns, Lower(question))

\* ------------------------------------------------- retrieval orchestrator
\* similarity_search(query_emb, k=10) and search_by_keyword(question, k=10)
SearchK == 10

\* filtered_results[:5]
TopResults == 5

\* relevant_chunks[:3]
SourceChunks == 3

\* SimpleLLMClient.get_embeddings([question])[0]: the hash embedding of the
\* question, computed as _create_simple_embeddings computes a chunk's
QueryEmbedding(question) == SimpleEmbedding(question).v

\* result.get('metadata', {}).get('content_type', 'general')
ContentTypeOf(chunk) ==
    IF "content_type" \in DOMAIN chunk THEN chunk.content_type ELSE "general"

\* the loop "for result in vector_results + keyword_results": the results
\* with a non-empty text not seen before
RECURSIVE Dedupe(_, _)
Dedupe(results, seen_texts) ==
    IF results = <<>> THEN <<>>
    ELSE LET text == Head(results).chunk.text
         IN  IF text # <<>> /\ text \notin seen_texts
             THEN <<Head(results)>> \o Dedupe(Tail(results), seen_texts \cup {text})
             ELSE Dedupe(Tail(results), seen_texts)

\* the type matching chain of search_relevant_chunks
TypeMatches(question_type, content_type) ==
    IF question_type = "borrowing" /\ content_type \in {"borrowing", "membership"}
    THEN TRUE
    ELSE IF question_type = "fines" /\ content_type \in {"fines", "borrowing"}
    THEN TRUE
    ELSE IF question_type = "plagiarism"
              /\ content_type \in {"academic_integrity", "referencing"}
    THEN TRUE
    ELSE IF question_type = "referencing"
              /\ content_type \in {"referencing", "academic_integrity"}
    THEN TRUE
    ELSE IF question_type = "eresources" /\ content_type \in {"eresources", "general"}
    THEN TRUE
    ELSE IF question_type = "hours" /\ content_type = "hours"
    THEN TRUE
    ELSE content_type = question_type \/ content_type = "general"

RECURSIVE FilterByType(_, _)
FilterByType(results, question_type) ==
    IF results = <<>> THEN <<>>
    ELSE (IF TypeMatches(question_type, ContentTypeOf(Head(results).chunk))
          THEN <<Head(results)>> ELSE <<>>)
         \o FilterByType(Tail(results), question_type)

\* RelevantChunks merging the keyword results ahead of the similarity results
RelevantChunks_KeywordFirst(question, question_type, vector_results) ==
    LET keyword_results == KeywordResult(question, SearchK)
        all_results == Dedupe(keyword_results \o vector_results, {})
        filtered_results == FilterByType(all_results, question_type)
    IN  SubSeq(filtered_results, 1, Min(TopResults, Len(filtered_results)))


\* search_relevant_chunks on a loaded store, given what similarity_search
\* returned
RelevantChunks(question, question_type, vector_results) ==
    LET keyword_results == KeywordResult(question, SearchK)
        all_results == Dedupe(vector_results \o keyword_results, {})
        filtered_results == FilterByType(all_results, question_type)
    IN  SubSeq(filtered_results, 1, Min(TopResults, Len(filtered_results)))

\* the question and its category as ret.arg keeps them
Asked(question, question_type) ==
    [question |-> question, question_type |-> question_type]

SearchRelevantChunks(question, question_type) ==
    IF ~loaded
    THEN /\ ret' = Ret("search_relevant_chunks", FALSE, TRUE, <<>>,
                       Asked(question, question_type), SearchK)
         /\ UNCHANGED <<mem, disk>>
    ELSE \E o \in SimilarityOutcomes(QueryEmbedding(question), SearchK) :
            /\ o.stored => Len(search_cache) < MaxCache
            /\ search_cache' =
                 IF o.stored
                 THEN CachePut(CacheKey(QueryEmbedding(question), SearchK), o.val)
                 ELSE search_cache
            /\ ret' = Ret("search_relevant_chunks", FALSE, TRUE,
                          RelevantChunks(question, question_type, o.val),
                          Asked(question, question_type), SearchK)
            /\ UNCHANGED <<chunks, embeddings, loaded, disk>>

\* str.strip(): leading and trailing white space removed
IsSpace(c) == c \in {Ord(" "), Ord("\n")}

RECURSIVE Strip(_)
Strip(t) ==
    IF t = <<>> THEN t
    ELSE IF IsSpace(Head(t)) THEN Strip(Tail(t))
    ELSE IF IsSpace(t[Len(t)]) THEN Strip(SubSeq(t, 1, Len(t) - 1))
    ELSE t

\* the context_part of one chunk
ContextPart(chunk) ==
    LET \* chunk.get('metadata', {}).get('section', '')
        section == IF "section" \in DOMAIN chunk THEN chunk.section ELSE <<>>
    IN  Codes("[Source: ") \o chunk.source
          \o (IF section # <<>> THEN Codes(", Section: ") \o section ELSE <<>>)
          \o Codes("]\n") \o Strip(chunk.text) \o Codes("\n")

\* context_parts: one part per chunk whose stripped text is not empty
RECURSIVE ContextParts(_)
ContextParts(results) ==
    IF results = <<>> THEN <<>>
    ELSE (IF Strip(Head(results).chunk.text) # <<>>
          THEN <<ContextPart(Head(results).chunk)>> ELSE <<>>)
         \o ContextParts(Tail(results))

\* sep.join(parts)
RECURSIVE Join(_, _)
Join(sep, parts) ==
    IF parts = <<>> THEN <<>>
    ELSE IF Len(parts) = 1 THEN parts[1]
    ELSE parts[1] \o sep \o Join(sep, Tail(parts))

\* AccurateRAGSystem.format_context
FormatContext(results) == Join(Codes("\n---\n"), ContextParts(results))

\* any(word in question_lower for word in words)
AnyWord(words, question_lower) == \E w \in words : Contains(question_lower, Codes(w))

\* AccurateRAGSystem._get_template_answer; "" when no template applies
TemplateAnswer(question) ==
    LET ql == Lower(question)
        limit == IF Contains(ql, Codes("undergraduate")) THEN "Undergraduate students can borrow up to 3 books for 14 days, with 1 renewal allowed."
                 ELSE IF Contains(ql, Codes("postgraduate")) THEN "Postgraduate students can borrow up to 6 books for 30 days, with 1 renewal allowed."
                 ELSE IF Contains(ql, Codes("academic staff")) THEN "Academic staff can borrow up to 6 books for 90 days, with 1 renewal allowed."
                 ELSE IF Contains(ql, Codes("non-academic")) THEN "Non-academic staff can borrow up to 3 books for 30 days, with 1 renewal allowed."
                 ELSE IF Contains(ql, Codes("part-time")) THEN "Part-time lecturers can borrow up to 6 books for 30 days, with 1 renewal allowed."
                 ELSE ""
    IN  IF AnyWord({"how many books", "borrow limit", "maximum books"}, ql) /\ limit # ""
        THEN limit
        ELSE IF AnyWord({"fine", "overdue", "penalty", "charge"}, ql)
        THEN "Overdue fines are Ksh 5 per book per day, starting immediately after the due date. All user categories have the same fine rate."
        ELSE IF AnyWord({"open", "close", "hour", "time"}, ql)
        THEN "Library hours: Monday-Friday: 07:30-22:00, Saturday: 09:00-15:00, Sunday: 13:45-18:00"
        ELSE IF Contains(ql, Codes("plagiarism"))
        THEN "Plagiarism is presenting others' ideas, works, or statements as your own without proper acknowledgment. The university uses Turnitin software to detect plagiarism."
        ELSE IF Contains(ql, Codes("apa"))
        THEN "University of Embu uses APA 7th Edition for referencing. Always cite sources to avoid plagiarism."
        ELSE IF Contains(ql, Codes("renew"))
        THEN "You can renew books once only, before the due date. Renew at the circulation desk with your ID and the book."
        ELSE IF AnyWord({"lost", "misplace"}, ql)
        THEN "Report lost items immediately to stop fines. If not found after 1 month, replace the item plus Ksh 500 processing fee."
        ELSE ""

\* the answers generate_precise_answer can return: the template answer, or
\* what SimpleLLMClient.generate_answer can return (the stripped answer of
\* the language model, or one of its replacements; never the empty string)
PreciseAnswers(question) ==
    IF TemplateAnswer(question) # "" THEN {TemplateAnswer(question)}
    ELSE {"an answer", "No answer generated.", "Error: HTTP 500"}

\* what get_accurate_response returns: the answer text, the sources named
\* in its "Based on" line, and for the claims the relevant chunks and the
\* context handed to generate_precise_answer (generated says whether it ran)
Response(text, relevant, generated, context, sources) ==
    [text |-> text, relevant |-> relevant, generated |-> generated,
     context |-> context, sources |-> sources]

IngestFirst == "Please ingest PDF documents first using the ingest script."

NotFound == "I couldn't find specific information about that in the library documents. Please rephrase your question or ask about library services, borrowing rules, fines, hours, or e-resources."

\* the sources of relevant_chunks[:3]
SourcesOf(relevant) ==
    {relevant[i].chunk.source : i \in 1..Min(SourceChunks, Len(relevant))}

\* GetAccurateResponse without the test "if not relevant_chunks"
GetAccurateResponse_NoTest(question) ==
    LET question_type == ClassifyQuestion(question) IN
    IF ~loaded
    THEN /\ ret' = Ret("get_accurate_response", FALSE, TRUE,
                       Response(IngestFirst, <<>>, FALSE, <<>>, {}),
                       Asked(question, question_type), SearchK)
         /\ UNCHANGED <<mem, disk>>
    ELSE \E o \in SimilarityOutcomes(QueryEmbedding(question), SearchK) :
            LET relevant == RelevantChunks(question, question_type, o.val)
                context == FormatContext(relevant)
            IN  /\ o.stored => Len(search_cache) < MaxCache
                /\ search_cache' =
                     IF o.stored
                     THEN CachePut(CacheKey(QueryEmbedding(question), SearchK), o.val)
                     ELSE search_cache
                /\ \E answer \in PreciseAnswers(question) :
                      ret' = Ret("get_accurate_response", FALSE, TRUE,
                                 Response(answer, relevant, TRUE, context,
                                          SourcesOf(relevant)),
                                 Asked(question, question_type), SearchK)
                /\ UNCHANGED <<chunks, embeddings, loaded, disk>>

\* get_accurate_response from "if not rag_system.vector_store.loaded" on, the
\* store being the one AccurateRAGSystem() has constructed and loaded
GetAccurateResponse(question) ==
    LET question_type == ClassifyQuestion(question) IN
    IF ~loaded
    THEN /\ ret' = Ret("get_accurate_response", FALSE, TRUE,
                       Response(IngestFirst, <<>>, FALSE, <<>>, {}),
                       Asked(question, question_type), SearchK)
         /\ UNCHANGED <<mem, disk>>
    ELSE \E o \in SimilarityOutcomes(QueryEmbedding(question), SearchK) :
            LET relevant == RelevantChunks(question, question_type, o.val)
                context == FormatContext(relevant)
            IN  /\ o.stored => Len(search_cache) < MaxCache
                /\ search_cache' =
                     IF o.stored
                     THEN CachePut(CacheKey(QueryEmbedding(question), SearchK), o.val)
                     ELSE search_cache
                /\ IF relevant = <<>>
                   THEN ret' = Ret("get_accurate_response", FALSE, TRUE,
                                   Response(NotFound, relevant, FALSE, <<>>, {}),
                                   Asked(question, question_type), SearchK)
                   ELSE \E answer \in PreciseAnswers(question) :
                           ret' = Ret("get_accurate_response", FALSE, TRUE,
                                      Response(answer, relevant, TRUE, context,
                                               SourcesOf(relevant)),
                                      Asked(question, question_type), SearchK)
                /\ UNCHANGED <<chunks, embeddings, loaded, disk>>

\* ---------------------------------------------------------------- ingestion
\* "if len(para) < 30": paragraphs shorter than this are not chunks
MinParagraph == 30
\* "len(' '.join(current)) > 100": a paragraph longer than this is complete
ParagraphLength == 100

\* AccuratePDFIngestor.library_keywords
library_keywords ==
    <<Codes("borrow"), Codes("return"), Codes("renew"), Codes("fine"),
      Codes("overdue"), Codes("loan"), Codes("circulation"), Codes("plagiarism"),
      Codes("citation"), Codes("apa"), Codes("reference"), Codes("hours"),
      Codes("open"), Codes("close"), Codes("staff"), Codes("student"),
      Codes("postgraduate"), Codes("undergraduate"), Codes("academic"),
      Codes("book"), Codes("journal"), Codes("e-resource"), Codes("myloft"),
      Codes("turnitin"), Codes("database"), Codes("access"), Codes("membership")>>

\* the decimal digits
Digits == Codes("0123456789")

\* position i of t lies in a separator of re.split(r'(?<=[.!?])\s+', t): in
\* a run of white space that follows a sentence end
InSeparator(t, i) ==
    /\ i \in 1..Len(t)
    /\ IsSpace(t[i])
    /\ \E j \in 1..(i - 1) :
          /\ t[j] \in {Ord("."), Ord("!"), Ord("?")}
          /\ \A m \in (j + 1)..i : IsSpace(t[m])

\* re.split(r'(?<=[.!?])\s+', text): the pieces between the separators, and
\* an empty last piece when the text ends with a separator
SplitSentences(text) ==
    LET starts == {i \in 1..Len(text) :
                      ~InSeparator(text, i) /\ (i = 1 \/ InSeparator(text, i - 1))}
        ends == {i \in 1..Len(text) :
                    ~InSeparator(text, i) /\ (i = Len(text) \/ InSeparator(text, i + 1))}
        Nth(S, n) == CHOOSE x \in S : Cardinality({y \in S : y <= x}) = n
        pieces == [n \in 1..Cardinality(starts) |->
                      SubSeq(text, Nth(starts, n), Nth(ends, n))]
    IN  IF text = <<>> THEN <<text>>
        ELSE IF InSeparator(text, Len(text)) THEN Append(pieces, <<>>)
        ELSE pieces

\* the loop of _split_into_paragraphs over sentences[i..]: current is the
\* list of sentences of the paragraph being built
RECURSIVE ParagraphsFrom(_, _, _, _)
ParagraphsFrom(sentences, i, current, paragraphs) ==
    IF i > Len(sentences)
    THEN IF current # <<>> THEN Append(paragraphs, Join(Codes(" "), current))
         ELSE paragraphs
    ELSE IF Strip(sentences[i]) = <<>>
    THEN ParagraphsFrom(sentences, i + 1, current, paragraphs)
    ELSE LET cur == Append(current, sentences[i])
             joined == Join(Codes(" "), cur)
             st == Strip(sentences[i])
             \* sentence.strip().endswith((':', ';'))
             ends_thought == st[Len(st)] \in {Ord(":"), Ord(";")}
         IN  IF Len(joined) > ParagraphLength \/ ends_thought
             THEN ParagraphsFrom(sentences, i + 1, <<>>, Append(paragraphs, joined))
             ELSE ParagraphsFrom(sentences, i + 1, cur, paragraphs)

\* AccuratePDFIngestor._split_into_paragraphs
SplitIntoParagraphs(text) == ParagraphsFrom(SplitSentences(text), 1, <<>>, <<>>)

\* AccuratePDFIngestor._calculate_importance, in tenths
CalculateImportance(text, title) ==
    LET text_lower == Lower(text)
        title_lower == Lower(title)
        in_text == {i \in 1..Len(library_keywords) :
                       Contains(text_lower, library_keywords[i])}
        in_title == {i \in 1..Len(library_keywords) :
                        Contains(title_lower, library_keywords[i])}
        procedural == \E w \in {Codes("step"), Codes("procedure"), Codes("how to"),
                                 Codes("guide")} : Contains(text_lower, w)
        numerical == \E i \in 1..Len(text) : \E d \in 1..10 : text[i] = Digits[d]
        definition == \E w \in {Codes("q:"), Codes("what is"), Codes("definition of")} :
                          MatchAt(text_lower, w, 1)
        score == 5 + Cardinality(in_text) + 2 * Cardinality(in_title)
                   + (IF procedural THEN 3 ELSE 0) + (IF numerical THEN 1 ELSE 0)
                   + (IF definition THEN 2 ELSE 0)
    IN  Min(score, 10)

\* str(n) for n >= 0
RECURSIVE Decimal(_)
Decimal(n) ==
    IF n < 10 THEN <<Digits[n + 1]>>
    ELSE Append(Decimal(n \div 10), Digits[(n % 10) + 1])

\* a section as extract_with_sections writes it
Section(title, content, source, page) ==
    [title |-> Codes(title), content |-> Codes(content), source |-> Codes(source),
     page |-> page]

\* the inner loop of create_accurate_chunks over paragraphs[i..], cs being
\* the chunks made so far; the metadata fields are fields of the chunk
RECURSIVE ChunksOfParagraphs(_, _, _, _)
ChunksOfParagraphs(section, paragraphs, i, cs) ==
    LET para == paragraphs[i]
        chunk == [text |-> para,
                  source |-> section.source,
                  section |-> section.title,
                  chunk_id |-> section.source \o Codes("_") \o Decimal(Len(cs)),
                  page |-> section.page,
                  content_type |-> ClassifyContent(para),
                  importance |-> CalculateImportance(para, section.title)]
    IN  IF i > Len(paragraphs) THEN cs
        ELSE IF Len(para) < MinParagraph
        THEN ChunksOfParagraphs(section, paragraphs, i + 1, cs)
        ELSE ChunksOfParagraphs(section, paragraphs, i + 1, Append(cs, chunk))

\* the outer loop of create_accurate_chunks over sections[i..]
RECURSIVE ChunksOfSections(_, _, _)
ChunksOfSections(sections, i, cs) ==
    IF i > Len(sections) THEN cs
    ELSE ChunksOfSections(sections, i + 1,
             ChunksOfParagraphs(sections[i],
                                SplitIntoParagraphs(sections[i].content), 1, cs))

\* AccuratePDFIngestor.create_accurate_chunks: the list starts empty at
\* every call
CreateAccurateChunks(sections) == ChunksOfSections(sections, 1, <<>>)

\* ---------------------------------------------------------- specifications
scenario == <<pc, given>>

\* every operation of the store, and the damage the environment can do
Next ==
    \/ Construct /\ UNCHANGED scenario
    \/ \E new \in ChunkInputs : \E vecs \in VectorInputs :
          AddChunks(new, vecs) /\ UNCHANGED scenario
    \/ Clear /\ UNCHANGED scenario
    \/ Save /\ UNCHANGED scenario
    \/ Load /\ UNCHANGED scenario
    \/ CorruptEmbeddingsFile /\ UNCHANGED scenario
    \/ CorruptChunksFile /\ UNCHANGED scenario
    \/ \E q \in Queries : \E k \in Ks : SimilaritySearch(q, k) /\ UNCHANGED scenario
    \/ \E kw \in Keywords : \E k \in Ks : SearchByKeyword(kw, k) /\ UNCHANGED scenario

Spec == Init /\ [][Next]_vars


\* store directories a new store object can be constructed on: empty, and
\* one chunk with its vector
InitialDirectories ==
    {<<NoChunksFile, NoEmbeddingsFile>>,
     <<SavedChunksFile(<<ChunkB>>), SavedEmbeddingsFile(Matrix(EmbDim, <<RowE1>>))>>}

\* a new store object on a directory that earlier runs left behind
InitStore ==
    /\ chunks = <<>>
    /\ embeddings = NoMatrix
    /\ loaded = FALSE
    /\ search_cache = <<>>
    /\ \E d \in InitialDirectories : chunks_file = d[1] /\ embeddings_file = d[2]
    /\ ret = Ret("init", FALSE, TRUE, <<>>, <<>>, 0)
    /\ pc = "free"
    /\ given = NoGiven

\* one store object that is filled (the vectors added having one row value),
\* searched (one query, one keyword), cleared and reloaded, but never saved
SpecStore ==
    InitStore
      /\ [][(Construct /\ UNCHANGED scenario)
             \/ (\E new \in ChunkInputs : \E vecs \in FewVectorInputs :
                   AddChunks(new, vecs) /\ UNCHANGED scenario)
             \/ (Clear /\ UNCHANGED scenario)
             \/ (Load /\ UNCHANGED scenario)
             \/ (\E q \in {RowNaN1.v} : \E k \in FewKs :
                   SimilaritySearch(q, k) /\ UNCHANGED scenario)
             \/ (\E kw \in OneKeyword : \E k \in FewKs :
                   SearchByKeyword(kw, k) /\ UNCHANGED scenario)]_vars

\* sequences of add_chunks calls only
SpecAdd ==
    Init /\ [][\E new \in ChunkInputs : \E vecs \in VectorInputs :
                   AddChunks(new, vecs) /\ UNCHANGED scenario]_vars

\* persistence: every operation but the searches, the vectors added having
\* one row value
SpecDisk ==
    Init /\ [][(Construct /\ UNCHANGED scenario)
                 \/ (\E new \in ChunkInputs : \E vecs \in FewVectorInputs :
                       AddChunks(new, vecs) /\ UNCHANGED scenario)
                 \/ (Clear /\ UNCHANGED scenario)
                 \/ (Save /\ UNCHANGED scenario)
                 \/ (Load /\ UNCHANGED scenario)
                 \/ (CorruptEmbeddingsFile /\ UNCHANGED scenario)
                 \/ (CorruptChunksFile /\ UNCHANGED scenario)]_vars

\* a store directory on which writing and reading may fail
SpecFaults ==
    Init /\ [][\/ (\E new \in ChunkInputs : \E vecs \in {NoMatrix, Matrix(EmbDim, <<RowE1>>)} :
                     AddChunks(new, vecs) /\ UNCHANGED scenario)
                 \/ (Save /\ UNCHANGED scenario)
                 \/ (\E step \in {"open", "json.dump", "np.save_open", "np.save"} :
                        SaveFailure(step) /\ UNCHANGED scenario)
                 \/ (Load /\ UNCHANGED scenario)
                 \/ (CorruptChunksFile /\ UNCHANGED scenario)]_vars

\* adding chunks one at a time, each with its row, and searching: the store
\* stays aligned and every successful add clears the cache
SpecTies ==
    Init /\ [][(\E c \in ChunkPool : \E r \in WideRows :
                    AddChunks(<<c>>, Matrix(EmbDim, <<r>>)) /\ UNCHANGED scenario)
                 \/ (\E q \in Queries : \E k \in Ks :
                    SimilaritySearch(q, k) /\ UNCHANGED scenario)]_vars

\* clearing a store directory whose files may resist deletion
NextClear ==
    \/ Construct /\ UNCHANGED scenario
    \/ \E new \in ChunkInputs : \E vecs \in FewVectorInputs :
          AddChunks(new, vecs) /\ UNCHANGED scenario
    \/ \E rc \in BOOLEAN : \E re \in BOOLEAN : ClearFiles(rc, re) /\ UNCHANGED scenario
    \/ Save /\ UNCHANGED scenario
    \/ Load /\ UNCHANGED scenario

SpecClear == Init /\ [][NextClear]_vars

\* a store filled chunk by chunk without vectors and searched by keyword (the
\* keywords "a", "A", "c" and "aa"); of the chunks, "ba" from source "b"
\* scores like ChunkB for the keyword "a", and "aaa" from source "c" holds
\* "aa" once
SpecKeyword ==
    Init /\ [][(\E new \in SeqsUpTo({ChunkA, ChunkB,
                                      [text |-> <<2, 1>>, source |-> <<2>>],
                                      [text |-> <<1, 1, 1>>, source |-> <<3>>]}, 1) :
                    AddChunks(new, NoMatrix) /\ UNCHANGED scenario)
                 \/ (\E kw \in Keywords \cup {<<1, 1>>} : \E k \in Ks :
                        SearchByKeyword(kw, k) /\ UNCHANGED scenario)]_vars

\* a new store object on a store directory whose vector artifact may hold
\* NaN: an embeddings.npy written by another program
InitNaN ==
    LET ForeignEmbeddingsFile ==
            [exists |-> TRUE, readable |-> TRUE, data |-> Matrix(EmbDim, <<RowNaN1>>)]
        NaNDirectories ==
            InitialDirectories
              \cup {<<SavedChunksFile(<<ChunkB>>), ForeignEmbeddingsFile>>}
    IN
    /\ chunks = <<>>
    /\ embeddings = NoMatrix
    /\ loaded = FALSE
    /\ search_cache = <<>>
    /\ \E d \in NaNDirectories : chunks_file = d[1] /\ embeddings_file = d[2]
    /\ ret = Ret("init", FALSE, TRUE, <<>>, <<>>, 0)
    /\ pc = "free"
    /\ given = NoGiven

\* add, load, save and clear on such a directory
SpecNaN == InitNaN /\ [][NextClear]_vars

\* ------------------------------------------------------- question answering
\* a chunk as a segmenter stores it: content_type is the class of its text
RAGChunk(text, source, section) ==
    [text |-> Codes(text), source |-> Codes(source), section |-> Codes(section),
     content_type |-> ClassifyContent(Codes(text))]

\* stored chunks of the types hours, academic_integrity, membership,
\* borrowing, and a general one whose text is blank
RAGPool ==
    {RAGChunk("open hours", "a.pdf", "HOURS"),
     RAGChunk("turnitin", "a.pdf", ""),
     RAGChunk("staff", "b.pdf", ""),
     RAGChunk("loan", "b.pdf", "LOANS"),
     RAGChunk("  ", "c.pdf", "")}

\* questions of the categories borrowing, plagiarism, hours, membership and
\* general
Questions ==
    {Codes("borrow"), Codes("plagiarism"), Codes("open"), Codes("staff"), Codes("hello")}

\* the vectors an embedder computed for n chunks: (1, 1, ..), (2, 1, ..), ..
IngestedRows(n) ==
    [i \in 1..n |-> Row([j \in 1..EmbDim |-> IF j = 1 THEN i ELSE 1])]

\* a handbook of seven chunks from seven files, all of types a borrowing
\* question accepts, two of them with the same text
Handbook ==
    <<RAGChunk("loan", "b.pdf", "LOANS"),
      RAGChunk("renew", "d.pdf", ""),
      RAGChunk("staff", "a.pdf", ""),
      RAGChunk("return", "e.pdf", ""),
      RAGChunk("loan", "f.pdf", ""),
      RAGChunk("borrow", "g.pdf", ""),
      RAGChunk("student", "h.pdf", "")>>

\* a new store object on a store directory an ingestion left behind: the
\* chunks with one vector each, or with an array of no rows
InitRAG ==
    LET RAGDirectories ==
            UNION {{<<SavedChunksFile(cs),
                      SavedEmbeddingsFile(Matrix(EmbDim, IngestedRows(Len(cs))))>>,
                    <<SavedChunksFile(cs), SavedEmbeddingsFile(Matrix(EmbDim, <<>>))>>} :
                      cs \in SeqsUpTo(RAGPool, MaxChunks) \cup {Handbook}}
    IN
    /\ chunks = <<>>
    /\ embeddings = NoMatrix
    /\ loaded = FALSE
    /\ search_cache = <<>>
    /\ \E d \in RAGDirectories : chunks_file = d[1] /\ embeddings_file = d[2]
    /\ ret = Ret("init", FALSE, TRUE, <<>>, <<>>, 0)
    /\ pc = "free"
    /\ given = NoGiven

\* AccurateRAGSystem.__init__: self.vector_store = VectorStore()
RAGConstruct ==
    /\ pc = "free"
    /\ Construct
    /\ pc' = "constructed"
    /\ UNCHANGED given

\* AccurateRAGSystem.__init__: self.vector_store.load()
RAGLoad ==
    /\ pc = "constructed"
    /\ Load
    /\ pc' = "rag"
    /\ UNCHANGED given

\* a caller classifies its question and searches
RAGSearch ==
    /\ pc = "rag"
    /\ \E question \in Questions :
          SearchRelevantChunks(question, ClassifyQuestion(question))
    /\ pc' = "free"
    /\ UNCHANGED given

\* the rest of get_accurate_response
RAGRespond ==
    /\ pc = "rag"
    /\ \E question \in Questions : GetAccurateResponse(question)
    /\ pc' = "free"
    /\ UNCHANGED given

SpecRAG == InitRAG /\ [][RAGConstruct \/ RAGLoad \/ RAGSearch \/ RAGRespond]_vars

\* ------------------------------------------------------ classify_question
\* words of questions: keywords of the categories, in lower and upper case,
\* inside another word ("define"), and words that are no keyword
\* questions of one word or two
ClassifyInputs ==
    LET QuestionWords ==
            {Codes("borrow"), Codes("fine"), Codes("open"), Codes("plagiarism"),
             Codes("exam"), Codes("join"), Codes("floor"), Codes("apa"),
             Codes("Citation"), Codes("define"), Codes("hello")}
    IN  QuestionWords
          \cup {a \o Codes(" ") \o b : a \in QuestionWords, b \in QuestionWords}

\* rag_system.classify_question(question)
ClassifyQuestionCall(question) ==
    /\ ret' = Ret("classify_question", FALSE, TRUE, ClassifyQuestion(question),
                  question, 0)
    /\ UNCHANGED <<mem, disk>>

SpecClassify ==
    Init /\ [][\E question \in ClassifyInputs :
                   ClassifyQuestionCall(question) /\ UNCHANGED scenario]_vars

\* ------------------------------------------------------ concurrent readers
\* the threads that search one store object at the same time
Readers == {"r1", "r2"}

\* the query of every similarity search of the readers
ReaderQuery == RowE1.v

\* the locals of a reader: its call, the key it is about to pop, its results
Locals(call, oldest, results) == [call |-> call, oldest |-> oldest, results |-> results]

\* a loaded store of two chunks with their vectors, its cache holding
\* cache_size - 1 or cache_size results, and idle readers
\* the cache after n sequential searches similarity_search(ReaderQuery, k),
\* k = 1..n, on the chunks and vectors of the store
WarmCache(n) ==
    [i \in 1..n |->
        [key |-> CacheKey(ReaderQuery, i),
         val |-> CHOOSE v \in {o.val : o \in SearchOutcomes(ReaderQuery, i)} :
                    TRUE]]

InitReaders ==
    LET NoCall == [op |-> "none", arg |-> <<>>, k |-> 0]
    IN
    /\ chunks = <<ChunkA, ChunkB>>
    /\ embeddings = Matrix(EmbDim, IngestedRows(2))
    /\ loaded = TRUE
    /\ search_cache \in {WarmCache(cache_size - 1), WarmCache(cache_size)}
    /\ chunks_file = SavedChunksFile(chunks)
    /\ embeddings_file = SavedEmbeddingsFile(embeddings)
    /\ ret = Ret("init", FALSE, TRUE, <<>>, <<>>, 0)
    /\ pc = [r \in Readers |-> "idle"]
    /\ given = [r \in Readers |-> Locals(NoCall, CacheKey(<<>>, 0), <<>>)]

\* reader r returns val (or raises) and is done
Return(r, raised, val) ==
    /\ ret' = Ret(given[r].call.op, raised, ~raised, val, given[r].call.arg,
                  given[r].call.k)
    /\ pc' = [pc EXCEPT ![r] = "done"]

\* reader r moves on to the statement at label
Goto(r, label) ==
    /\ pc' = [pc EXCEPT ![r] = label]
    /\ UNCHANGED ret

\* the key of reader r's similarity search
ReaderKey(r) == CacheKey(NanToNumRow(Row(given[r].call.arg)).v, given[r].call.k)

\* a reader enters similarity_search or search_by_keyword: a similarity
\* search whose key is the oldest of the warm cache, one of two searches
\* with new keys, or a keyword search
ReaderCall(r) ==
    LET ReaderCalls ==
            {[op |-> "similarity_search", arg |-> ReaderQuery, k |-> k] :
                k \in {1, cache_size + 1, cache_size + 2}}
              \cup {[op |-> "search_by_keyword", arg |-> kw, k |-> MaxK] :
                       kw \in OneKeyword}
    IN
    /\ pc[r] = "idle"
    /\ \E call \in ReaderCalls :
          /\ given' = [given EXCEPT ![r] = Locals(call, CacheKey(<<>>, 0), <<>>)]
          /\ pc' = [pc EXCEPT ![r] = call.op]
    /\ UNCHANGED <<mem, disk, ret>>

\* search_by_keyword reads self.loaded and self.chunks, and returns
ReaderKeyword(r) ==
    /\ pc[r] = "search_by_keyword"
    /\ Return(r, FALSE, KeywordResult(given[r].call.arg, given[r].call.k))
    /\ UNCHANGED <<mem, disk, given>>

\* "if not self.loaded or not self.chunks or self.embeddings is None"
ReaderGuard(r) ==
    /\ pc[r] = "similarity_search"
    /\ IF ~loaded \/ chunks = <<>> \/ embeddings.none
       THEN Return(r, FALSE, <<>>)
       ELSE Goto(r, "in_cache")
    /\ UNCHANGED <<mem, disk, given>>

\* "if cache_key in self._search_cache"
ReaderInCache(r) ==
    /\ pc[r] = "in_cache"
    /\ Goto(r, IF CacheHas(ReaderKey(r)) THEN "get" ELSE "compute")
    /\ UNCHANGED <<mem, disk, given>>

\* "return self._search_cache[cache_key]", outside the try block: a KeyError
\* leaves similarity_search when the key is gone
ReaderGet(r) ==
    /\ pc[r] = "get"
    /\ IF CacheHas(ReaderKey(r))
       THEN Return(r, FALSE, CacheGet(ReaderKey(r)))
       ELSE Return(r, TRUE, <<>>)
    /\ UNCHANGED <<mem, disk, given>>

\* the try block up to "results": it reads the chunks and the vectors, which
\* no reader changes
ReaderCompute(r) ==
    /\ pc[r] = "compute"
    /\ \E o \in SearchOutcomes(ReaderKey(r).q, ReaderKey(r).k) :
          IF o.stored
          THEN /\ given' = [given EXCEPT ![r].results = o.val]
               /\ Goto(r, "full")
          ELSE /\ Return(r, FALSE, o.val)
               /\ UNCHANGED given
    /\ UNCHANGED <<mem, disk>>

\* "if len(self._search_cache) >= self.cache_size"
ReaderFull(r) ==
    /\ pc[r] = "full"
    /\ Goto(r, IF Len(search_cache) >= cache_size THEN "oldest" ELSE "put")
    /\ UNCHANGED <<mem, disk, given>>

\* "next(iter(self._search_cache))": the key inserted first
ReaderOldest(r) ==
    /\ pc[r] = "oldest"
    /\ IF search_cache = <<>>
       THEN /\ Return(r, FALSE, <<>>)       \* StopIteration, caught
            /\ UNCHANGED given
       ELSE /\ given' = [given EXCEPT ![r].oldest = Head(search_cache).key]
            /\ Goto(r, "pop")
    /\ UNCHANGED <<mem, disk>>

\* "self._search_cache.pop(...)": a KeyError, caught by "except Exception",
\* makes similarity_search return [] when the key is gone
ReaderPop(r) ==
    LET \* dict.pop(key): the entries without that of key
        keep == {i \in 1..Len(search_cache) : search_cache[i].key # given[r].oldest}
        F[i \in 0..Len(search_cache)] ==
            IF i = 0 THEN <<>>
            ELSE IF i \in keep THEN Append(F[i - 1], search_cache[i]) ELSE F[i - 1]
    IN
    /\ pc[r] = "pop"
    /\ IF CacheHas(given[r].oldest)
       THEN /\ search_cache' = F[Len(search_cache)]
            /\ Goto(r, "put")
       ELSE /\ Return(r, FALSE, <<>>)
            /\ UNCHANGED search_cache
    /\ UNCHANGED <<chunks, embeddings, loaded, disk, given>>

\* "self._search_cache[cache_key] = results; return results"
ReaderPut(r) ==
    LET \* dict[key] = val: a new key goes to the end, a present key keeps
        \* its place
        entry == [key |-> ReaderKey(r), val |-> given[r].results]
        assigned ==
            IF CacheHas(entry.key)
            THEN [i \in 1..Len(search_cache) |->
                     IF search_cache[i].key = entry.key THEN entry
                     ELSE search_cache[i]]
            ELSE Append(search_cache, entry)
    IN
    /\ pc[r] = "put"
    /\ search_cache' = assigned
    /\ Return(r, FALSE, given[r].results)
    /\ UNCHANGED <<chunks, embeddings, loaded, disk, given>>

\* the readers' steps interleave in any order
SpecReaders ==
    InitReaders
      /\ [][\E r \in Readers :
               (ReaderCall(r) \/ ReaderKeyword(r) \/ ReaderGuard(r)
                  \/ ReaderInCache(r) \/ ReaderGet(r) \/ ReaderCompute(r)
                  \/ ReaderFull(r) \/ ReaderOldest(r) \/ ReaderPop(r)
                  \/ ReaderPut(r))]_vars

\* ------------------------------------------------- sequential cache fill
\* one caller after another searching a store whose cache already holds
\* cache_size - 1 or cache_size results; pc counts the searches made
SpecCache ==
    /\ chunks = <<ChunkA, ChunkB>>
    /\ embeddings = Matrix(EmbDim, IngestedRows(2))
    /\ loaded = TRUE
    /\ search_cache \in {WarmCache(cache_size - 1), WarmCache(cache_size)}
    /\ chunks_file = SavedChunksFile(chunks)
    /\ embeddings_file = SavedEmbeddingsFile(embeddings)
    /\ ret = Ret("init", FALSE, TRUE, <<>>, <<>>, 0)
    /\ pc = 0
    /\ given = NoGiven
    /\ [][\E k \in {1, 2} \cup ((cache_size - 1)..(cache_size + 3)) :
          \E o \in SimilarityOutcomes(ReaderQuery, k) :
             /\ pc < MaxSearches
             /\ SimilaritySearchStep(ReaderQuery, k, o)
             /\ pc' = pc + 1
             /\ UNCHANGED given]_vars


\* ----------------------------------------------------- the ingestion script
\* main() of ingest.py run to its end on PDFs giving all_chunks: the store
\* directory is removed and made anew; given chunks, and unless indexing
\* fails, vector_index.bin, metadata.pkl and chunks.txt are written into it.
\* given keeps what metadata.pkl and vector_index.bin hold; embedded tells
\* whether the embedder answered (zero vectors stand in when it did not)
IngestMain(all_chunks, embedded, indexed) ==
    LET embeddings_array ==
            IF embedded THEN Matrix(EmbDim, IngestedRows(Len(all_chunks)))
            ELSE Matrix(EmbDim, [i \in 1..Len(all_chunks) |->
                                    Row([j \in 1..EmbDim |-> 0])])
    IN
    /\ pc \in {"free", "done"}
    /\ chunks_file' = NoChunksFile
    /\ embeddings_file' = NoEmbeddingsFile
    /\ given' = IF all_chunks # <<>> /\ indexed
                THEN [chunks |-> [i \in 1..Len(all_chunks) |->
                                     [content |-> all_chunks[i].text,
                                      source |-> all_chunks[i].source]],
                      vectors |-> embeddings_array]
                ELSE NoGiven
    /\ pc' = "ingested"
    /\ ret' = Ret("main", FALSE, TRUE, <<>>, <<>>, 0)
    /\ UNCHANGED mem

\* a store directory the application filled, then the ingestion script run
\* by run_ingestion_background, which after the script's exit makes a new
\* VectorStore and loads it
SpecIngestRun ==
    Init /\ [][(\E new \in ChunkInputs :
                  \E vecs \in {NoMatrix, Matrix(EmbDim, <<RowE1>>)} :
                     pc = "free" /\ AddChunks(new, vecs) /\ UNCHANGED scenario)
                 \/ (pc = "free" /\ Save /\ UNCHANGED scenario)
                 \/ (\E all_chunks \in SeqsUpTo(ChunkPool, MaxChunks) :
                       \E embedded, indexed \in BOOLEAN :
                          IngestMain(all_chunks, embedded, indexed))
                 \/ (pc = "ingested" /\ Construct /\ pc' = "constructed"
                       /\ UNCHANGED given)
                 \/ (pc = "constructed" /\ Load /\ pc' = "done"
                       /\ UNCHANGED given)]_vars


\* --------------------------------------------------------- background tasks
\* progress_data holds one task, kept in given; pc is the position of the
\* worker started for it: the function run, the point reached, the loop
\* counter i and the number n of PDF files
\* update_task_progress under task_lock: the entry is made when missing, then
\* progress, message and status are assigned; a final status sets end_time
\* (the log lines are left out)
UpdateTaskProgress(progress, message, status) ==
    given' = [exists |-> TRUE, progress |-> progress, message |-> message,
              status |-> status,
              ended |-> given.ended \/ status \in {"completed", "failed", "cancelled"}]

\* one step of reindex_task: up to and including its next call of
\* update_task_progress
ReindexTask ==
    /\ pc.task = "reindex"
    /\ \/ /\ pc.at = "start"
          /\ UpdateTaskProgress(0, "Starting reindexing process...", "running")
          /\ \E total_files \in 0..MaxFiles :
                pc' = [pc EXCEPT !.at = "listed", !.i = 0, !.n = total_files]
       \/ /\ pc.at = "listed" /\ pc.n = 0
          /\ UpdateTaskProgress(100, "No PDF files found to process", "completed")
          /\ pc' = [pc EXCEPT !.at = "returned"]
       \/ /\ pc.at = "listed" /\ pc.i < pc.n
          /\ UpdateTaskProgress((pc.i * 100) \div pc.n, "Processing", "running")
          /\ pc' = [pc EXCEPT !.i = pc.i + 1]
       \/ /\ pc.at = "listed" /\ pc.n > 0 /\ pc.i = pc.n
          /\ UpdateTaskProgress(100, "Successfully reindexed", "completed")
          /\ pc' = [pc EXCEPT !.at = "returned"]
    /\ UNCHANGED <<mem, disk, ret>>

\* one step of install_model_task: up to and including its next call of
\* update_task_progress; i counts the lines read from "ollama pull"
InstallModelTask ==
    LET max_lines == 50
    IN
    /\ pc.task = "install"
    /\ \/ /\ pc.at = "start"
          /\ UpdateTaskProgress(0, "Starting installation", "running")
          /\ pc' = [pc EXCEPT !.at = "check"]
       \/ /\ pc.at = "check"
          /\ UpdateTaskProgress(0, "Ollama is not running or not accessible", "failed")
          /\ pc' = [pc EXCEPT !.at = "returned"]
       \/ /\ pc.at \in {"check", "pull"} /\ pc.i < MaxFiles
          /\ \E line \in {"Downloading", "Verifying", "Finalizing", "Installing"} :
                UpdateTaskProgress(
                    IF line = "Finalizing" THEN 95
                    ELSE Min(95, ((pc.i + 1) * 100) \div max_lines),
                    line, "running")
          /\ pc' = [pc EXCEPT !.at = "pull", !.i = pc.i + 1]
       \/ /\ pc.at \in {"check", "pull"}
          /\ \E returncode \in {0, 1} :
                IF returncode = 0
                THEN UpdateTaskProgress(100, "Successfully installed", "completed")
                ELSE UpdateTaskProgress(0, "Failed to install", "failed")
          /\ pc' = [pc EXCEPT !.at = "returned"]
    /\ UNCHANGED <<mem, disk, ret>>

\* DELETE /{task_id}: under task_lock, a running task is marked cancelled
CancelTask ==
    /\ IF given.exists
       THEN IF given.status = "running"
            THEN /\ given' = [given EXCEPT !.status = "cancelled",
                                           !.message = "Task cancelled by user",
                                           !.ended = TRUE]
                 /\ ret' = Ret("cancel_task", FALSE, TRUE, <<"cancelled">>, <<>>, 0)
            ELSE /\ ret' = Ret("cancel_task", FALSE, TRUE, <<"not_running">>, <<>>, 0)
                 /\ UNCHANGED given
       ELSE /\ ret' = Ret("cancel_task", TRUE, FALSE, <<>>, <<>>, 0)
            /\ UNCHANGED given
    /\ UNCHANGED <<mem, disk, pc>>

\* a task is started (start_task, install_model), its worker runs in the
\* background, and clients cancel it at any moment
SpecTasks ==
    /\ chunks = <<>>
    /\ embeddings = NoMatrix
    /\ loaded = FALSE
    /\ search_cache = <<>>
    /\ chunks_file = NoChunksFile
    /\ embeddings_file = NoEmbeddingsFile
    /\ ret = Ret("init", FALSE, TRUE, <<>>, <<>>, 0)
    /\ pc = [task |-> "none", at |-> "idle", i |-> 0, n |-> 0]
    /\ given = [exists |-> FALSE, progress |-> 0, message |-> "",
                status |-> "pending", ended |-> FALSE]
    /\ [][(\E task_type \in {"reindex", "install"} :
              /\ pc.task = "none"
              /\ pc' = [pc EXCEPT !.task = task_type, !.at = "start"]
              /\ UNCHANGED <<mem, disk, ret, given>>)
            \/ ReindexTask
            \/ InstallModelTask
            \/ CancelTask]_vars


\* ------------------------------------------------------ document ingestion
\* the sections extract_with_sections gives for four files: a.pdf, a
\* later edition of a.pdf, the two-section b.pdf, c.pdf; and for an
\* unreadable file
Documents ==
    LET SentenceBorrow == "Students may borrow up to five books for a period of two weeks."
        SentenceFines == "Overdue books attract a fine of ten shillings per day until returned."
        SentenceHours == "The library is open from 8 to 5 on weekdays."
        SentenceShort == "See staff."
    IN
    {<<Section("HOURS", SentenceHours, "a.pdf", 1)>>,
     <<Section("BORROWING", SentenceBorrow \o " " \o SentenceFines \o "  "
                              \o SentenceHours, "a.pdf", 2)>>,
     <<Section("", SentenceBorrow \o " " \o SentenceFines \o " " \o SentenceShort,
               "b.pdf", 1),
       Section("HOURS", SentenceHours \o "\n", "b.pdf", 2)>>,
     <<Section("FINES", SentenceFines, "c.pdf", 1)>>,
     <<>>}

\* what create_accurate_chunks returns for each of the documents
Segmented == [sections \in Documents |-> CreateAccurateChunks(sections)]

\* one document is segmented and its chunks are added to the store:
\* vector_store.add_chunks(ingestor.create_accurate_chunks(sections))
IngestDocument(sections) ==
    LET new == Segmented[sections] IN
    /\ Len(chunks) + Len(new) <= MaxIngested
    /\ chunks' = chunks \o new
    /\ loaded' = TRUE
    /\ search_cache' = <<>>
    /\ ret' = Ret("ingest", FALSE, TRUE, new, sections, 0)
    /\ UNCHANGED <<embeddings, disk>>

SpecIngest ==
    Init /\ [][\E sections \in Documents :
                   IngestDocument(sections) /\ UNCHANGED scenario]_vars

\* statistics of a store filled by document ingestion
SpecStats ==
    Init /\ [][(\E sections \in Documents :
                    IngestDocument(sections) /\ UNCHANGED scenario)
                 \/ (GetStats /\ UNCHANGED scenario)]_vars

\* ------------------------------------------------------ round-trip scenario
\* store.add(chunks, vectors); store.save(); store2.load()
\* with equally long chunks and NaN-free vectors
InitRoundTrip ==
    LET RoundTripInputs ==
            {[chunks |-> cs, vectors |-> m] :
                cs \in SeqsUpTo(ChunkPool, MaxChunks),
                m \in {NanToNum(x) : x \in Arrays(MaxRows)}}
    IN
    /\ chunks = <<>>
    /\ embeddings = NoMatrix
    /\ loaded = FALSE
    /\ search_cache = <<>>
    /\ \E d \in InitialDirectories : chunks_file = d[1] /\ embeddings_file = d[2]
    /\ ret = Ret("init", FALSE, TRUE, <<>>, <<>>, 0)
    /\ pc = "start"
    /\ given \in {g \in RoundTripInputs : Len(g.chunks) = Len(g.vectors.rows)}

RTAdd ==
    /\ pc = "start"
    /\ AddChunks(given.chunks, given.vectors)
    /\ pc' = "added"
    /\ UNCHANGED given

RTSave ==
    /\ pc = "added"
    /\ Save
    /\ pc' = "saved"
    /\ UNCHANGED given

\* store2 = FixedVectorStore() on the same directory
RTSecondStore ==
    /\ pc = "saved"
    /\ Construct
    /\ pc' = "store2"
    /\ UNCHANGED given

\* store2 is used before it loads
RTSecondStoreAdd ==
    /\ pc = "store2"
    /\ \E new \in ChunkInputs : \E vecs \in VectorInputs : AddChunks(new, vecs)
    /\ pc' = "store2used"
    /\ UNCHANGED given

RTLoad ==
    /\ pc \in {"store2", "store2used"}
    /\ Load
    /\ pc' = "loaded"
    /\ UNCHANGED given

SpecRoundTrip ==
    InitRoundTrip
      /\ [][RTAdd \/ RTSave \/ RTSecondStore \/ RTSecondStoreAdd \/ RTLoad]_vars

\* ================================================================== claims

\* C1: after any sequence of add_chunks calls, the number of stored chunks
\* equals the number of rows of the stored vector matrix (no matrix counting
\* as no rows).
C1_ChunksMatchRows == Len(chunks) = Len(embeddings.rows)

\* C2: an add_chunks call whose embeddings argument has a row count other
\* than the number of chunks passed raises.
C2_MismatchRaises ==
    (ret.op = "add" /\ ret.arg = <<1>>) => ret.raised

\* C3: an add_chunks call that raises leaves the chunk list, the matrix,
\* the loaded flag and the search cache as they were before the call.
C3_AddAtomic ==
    [][(ret'.op = "add" /\ ret'.raised) => mem' = mem]_vars

C6_Scores == Similarities(NanToNumRow(Row(ret.arg)).v)

\* the number of chunks scoring at least as high as chunk i: its rank
C6_Rank(i) ==
    Cardinality({j \in 1..Len(chunks) : ~ScoreLess(C6_Scores[j], C6_Scores[i])})

\* the store is loaded, every chunk has its row, and the chunks' scores to
\* the query are pairwise distinct
C6_DistinctScores ==
    /\ loaded
    /\ chunks # <<>>
    /\ ~embeddings.none
    /\ Len(embeddings.rows) = Len(chunks)
    /\ embeddings.w = Len(ret.arg)
    /\ \A i, j \in 1..Len(chunks) : i # j => C6_Scores[i] # C6_Scores[j]

\* C6: on a loaded store of N chunks with pairwise distinct scores and for
\* 1 <= k <= N, similarity_search(q, k) returns exactly the k highest-scoring
\* chunks in descending score order, each with its own score.
C6_TopK ==
    (ret.op = "similarity_search" /\ C6_DistinctScores
       /\ 1 <= ret.k /\ ret.k <= Len(chunks))
    => /\ Len(ret.val) = ret.k
       /\ \A r \in 1..ret.k : \E i \in 1..Len(chunks) :
             /\ C6_Rank(i) = r
             /\ ret.val[r] = Hit(chunks[i], C6_Scores[i])

\* C7: similarity_search(q, k) returns at most k chunks, for every k >= 0.
C7_AtMostK ==
    ret.op = "similarity_search" => Len(ret.val) <= ret.k

\* C8: immediately after every add_chunks and every clear the search cache
\* is empty.
C8_CacheInvalidated ==
    ret.op \in {"add", "clear"} => search_cache = <<>>

\* C9: load() with chunks.json missing returns successfully and leaves the
\* store with no chunks, no vectors and loaded = false.
C9_LoadMissing ==
    (ret.op = "load" /\ ~chunks_file.exists)
    => /\ ~ret.raised
       /\ ret.rv
       /\ chunks = <<>>
       /\ embeddings.none
       /\ ~loaded

\* C9 witness: a load has returned on a directory without chunks.json.
C9_Witness ==
    /\ ret.op = "load"
    /\ ~chunks_file.exists
    /\ ret.rv
    /\ ~loaded

\* C10: when load() finds at least one chunk record but embeddings.npy is
\* missing or unreadable, it succeeds and the store then holds one
\* regenerated vector per loaded chunk, in chunk order, with loaded = true.
C10_Regenerates ==
    (ret.op = "load" /\ chunks_file.exists /\ chunks_file.readable
       /\ chunks_file.data.chunks # <<>>
       /\ (~embeddings_file.exists \/ ~embeddings_file.readable))
    => /\ ret.rv
       /\ loaded
       /\ chunks = chunks_file.data.chunks
       /\ embeddings = CreateSimpleEmbeddings(chunks)

\* C11: clear() does not raise, and when it returns the store has no chunks,
\* no vectors, an empty search cache and loaded = false; a load() issued
\* next finds no data: it leaves the store without chunks and loaded = false.
C11_ClearEmpties ==
    [][/\ ret'.op = "clear"
          => /\ ~ret'.raised
             /\ chunks' = <<>>
             /\ embeddings'.none
             /\ search_cache' = <<>>
             /\ ~loaded'
       /\ (ret.op = "clear" /\ ret'.op = "load")
          => /\ chunks' = <<>>
             /\ ~loaded']_vars

\* the positions at which term occurs in text, upper and lower case alike
C12_Positions(text, term) ==
    {i \in 1..Len(text) : MatchAt(Lower(text), Lower(term), i)}

\* the number of occurrences of term in text: the most positions that can
\* be chosen without two occurrences overlapping
C12_Occurrences(text, term) ==
    LET fits == {P \in SUBSET C12_Positions(text, term) :
                    \A i, j \in P : i < j => j - i >= Len(term)}
    IN  CHOOSE n \in 0..Len(text) :
            /\ \E P \in fits : Cardinality(P) = n
            /\ \A P \in fits : Cardinality(P) <= n

\* 3 x (occurrences in the text) + 2 if the term occurs in the source
C12_Score(chunk, term) ==
    3 * C12_Occurrences(chunk.text, term)
      + (IF C12_Positions(chunk.source, term) # {} THEN 2 ELSE 0)

\* the stored chunks with a positive score for the keyword of the last search
C12_Positive == {i \in 1..Len(chunks) : C12_Score(chunks[i], ret.arg) > 0}

\* the place of chunk i among them: by score descending, ties in insertion
\* order
C12_Place(i) ==
    Cardinality({j \in C12_Positive :
        \/ C12_Score(chunks[j], ret.arg) > C12_Score(chunks[i], ret.arg)
        \/ /\ C12_Score(chunks[j], ret.arg) = C12_Score(chunks[i], ret.arg)
           /\ j <= i})

\* C12: search_by_keyword(term, k) on a loaded store returns the first k
\* entries of the list of the chunks with score > 0, ordered by score
\* descending with ties in insertion order, the score being 3 x (occurrences
\* of the term in the text) + 2 if the term occurs in the source; chunks of
\* score 0 are not returned.
C12_KeywordRanking ==
    (ret.op = "search_by_keyword" /\ loaded)
    => /\ Len(ret.val) = Min(ret.k, Cardinality(C12_Positive))
       /\ \A r \in 1..Len(ret.val) : \E i \in C12_Positive :
             /\ C12_Place(i) = r
             /\ ret.val[r] = Hit(chunks[i], NoScore)

\* C12 witness: a keyword search has returned two different chunks of equal
\* score in insertion order.
C12_Witness ==
    /\ ret.op = "search_by_keyword"
    /\ loaded
    /\ Len(chunks) = 2
    /\ chunks[1] # chunks[2]
    /\ C12_Score(chunks[1], ret.arg) = C12_Score(chunks[2], ret.arg)
    /\ C12_Score(chunks[1], ret.arg) > 0
    /\ ret.val = <<Hit(chunks[1], NoScore), Hit(chunks[2], NoScore)>>

\* C13: in every state reachable by add, load, save and clear no stored
\* vector contains NaN, also when the vectors passed to add or read from
\* embeddings.npy contain NaN; a NaN component is stored as 0.
C13_NoNaNStored ==
    /\ ~HasNaN(embeddings)
    /\ (ret.op = "load" /\ loaded /\ embeddings_file.exists /\ embeddings_file.readable)
       => embeddings = NanToNum(embeddings_file.data)

\* C13 witness: a load has read a vector artifact that holds NaN, and the
\* store holds its rows with 0 in place of NaN.
C13_Witness ==
    /\ ret.op = "load"
    /\ HasNaN(embeddings_file.data)
    /\ embeddings.rows # <<>>
    /\ embeddings = NanToNum(embeddings_file.data)

\* the cross-category table: the content types a question category accepts
\* besides its own and general
C14_Accepts ==
    {<<"borrowing", "membership">>, <<"fines", "borrowing">>,
     <<"referencing", "academic_integrity">>}

\* C14: every chunk search_relevant_chunks returns for a question of
\* category c has content_type c, or general, or a type the cross-category
\* table allows for c; a borrowing question never gets an hours chunk.
C14_RelevantTypes ==
    ret.op = "search_relevant_chunks"
    => \A i \in 1..Len(ret.val) :
          LET c  == ret.arg.question_type
              ct == ContentTypeOf(ret.val[i].chunk)
          IN  /\ ct = c \/ ct = "general" \/ <<c, ct>> \in C14_Accepts
              /\ ~(c = "borrowing" /\ ct = "hours")

\* C15: when the relevance filter leaves no chunk for a question on a loaded
\* store, get_accurate_response returns the not-found response: the answer
\* is not blank, and answer generation is not run on an empty context.
C15_NotFound ==
    (ret.op = "get_accurate_response" /\ loaded /\ ret.val.relevant = <<>>)
    => /\ ret.val.text = NotFound
       /\ ret.val.text # ""
       /\ ~ret.val.generated
       /\ ~ret.raised

\* C15 witness: a question on a loaded store none of whose chunks is
\* relevant to it has been answered with the not-found response.
C15_Witness ==
    /\ ret.op = "get_accurate_response"
    /\ loaded
    /\ chunks # <<>>
    /\ ~embeddings.none
    /\ Len(embeddings.rows) = Len(chunks)
    /\ ret.val.relevant = <<>>
    /\ ret.val.text = NotFound

\* the table entries one of whose keywords occurs in the last question
C16_Matching ==
    {i \in 1..Len(question_patterns) :
        \E j \in 1..Len(question_patterns[i].keywords) :
            \E p \in 1..Len(ret.arg) :
                MatchAt(Lower(ret.arg), question_patterns[i].keywords[j], p)}

\* C16: classify_question maps every question to one category, a member of
\* the enum of content_type; the category is general exactly when no table
\* keyword occurs in the question, and else the first category in table
\* order one of whose keywords occurs.
C16_QuestionCategory ==
    ret.op = "classify_question"
    => /\ ret.val \in ContentTypes
       /\ ret.val = "general" <=> C16_Matching = {}
       /\ \A i \in C16_Matching :
             (\A h \in C16_Matching : i <= h) => ret.val = question_patterns[i].category

\* C17: with readers only, every similarity_search and search_by_keyword
\* call returns what it returns when executed alone on the store, none
\* raises or returns a spurious empty list, and the search cache never holds
\* more than cache_size entries.
C17_ConcurrentReads ==
    /\ ret.op = "similarity_search"
       => /\ ~ret.raised
          /\ ret.val \in {o.val : o \in SearchOutcomes(NanToNumRow(Row(ret.arg)).v, ret.k)}
    /\ ret.op = "search_by_keyword"
       => /\ ~ret.raised
          /\ ret.val = KeywordResult(ret.arg, ret.k)
    /\ Len(search_cache) <= cache_size

\* C18: after any sequence of document ingestions into one store, no two
\* stored chunks share a chunk_id.
C18_UniqueChunkIds ==
    \A i \in 1..Len(chunks) : \A j \in 1..Len(chunks) :
        chunks[i].chunk_id = chunks[j].chunk_id => i = j

\* C19: in every state reachable by add, load and clear, loaded is true
\* if and only if the store holds at least one chunk.
C19_LoadedIffChunks == loaded <=> Len(chunks) > 0

\* the count a dict of get_stats holds for key: 0 when the key is absent
C20_CountOf(counts, key) == IF key \in DOMAIN counts THEN counts[key] ELSE 0

\* the sum of the values of a dict of counts
RECURSIVE C20_Total(_, _)
C20_Total(counts, keys) ==
    IF keys = {} THEN 0
    ELSE LET key == CHOOSE x \in keys : TRUE
         IN  counts[key] + C20_Total(counts, keys \ {key})

\* C20: get_stats on a loaded store returns the chunk count, for each source
\* the number of chunks of that source and for each content_type category
\* the number of chunks of that content_type as the segmenter wrote it, and
\* both families of counts sum to the chunk count.
C20_StatsCounts ==
    (ret.op = "get_stats" /\ loaded) =>
        /\ ret.val.total_chunks = Len(chunks)
        /\ \A i \in 1..Len(chunks) :
              ret.val.sources[chunks[i].source]
                = Cardinality({j \in 1..Len(chunks) : chunks[j].source = chunks[i].source})
        /\ C20_Total(ret.val.sources, DOMAIN ret.val.sources) = Len(chunks)
        /\ \A t \in ContentTypes :
              C20_CountOf(ret.val.chunk_types, t)
                = Cardinality({j \in 1..Len(chunks) : chunks[j].content_type = t})
        /\ C20_Total(ret.val.chunk_types, DOMAIN ret.val.chunk_types) = Len(chunks)

\* the chunks of relevant that format_context puts into the context: those
\* whose stripped text is not empty
C21_InContext(relevant) ==
    {i \in 1..Len(relevant) : Strip(relevant[i].chunk.text) # <<>>}

\* C21: the sources reported with an answer are exactly the distinct sources
\* of the chunks put into the formatted context.
C21_SourcesOfContext ==
    (ret.op = "get_accurate_response" /\ ret.val.generated) =>
        ret.val.sources
          = {ret.val.relevant[i].chunk.source : i \in C21_InContext(ret.val.relevant)}

\* C22: load and save never raise; a load that cannot read chunks.json
\* returns with no chunks, no vectors and loaded = false; a save whose
\* write fails returns a failure value.
C22_NeverRaise ==
    /\ ret.op \in {"load", "save"} => ~ret.raised
    /\ (ret.op = "load" /\ chunks_file.exists /\ ~chunks_file.readable)
         => (chunks = <<>> /\ embeddings.none /\ ~loaded)
    /\ (ret.op = "save" /\ ret.arg # <<>>) => ~ret.rv

\* a load met a chunks.json it could not read
C22_Witness ==
    ret.op = "load" /\ ~ret.rv /\ chunks_file.exists /\ ~chunks_file.readable

\* ---------------------------------------------------------------------- C23

\* the scores of the stored chunks to the query of the last search
C23_Scores == Similarities(NanToNumRow(Row(ret.arg)).v)

\* the result of the last search holds the chunk stored at index i
C23_Returned(i) == \E r \in 1..Len(ret.val) : ret.val[r].chunk = chunks[i]

\* the position of the chunk stored at index i in the result
C23_Position(i) == CHOOSE r \in 1..Len(ret.val) : ret.val[r].chunk = chunks[i]

\* C23: in similarity_search, chunks of equal score are ordered by insertion
\* order, and when k cuts through a group of equal scores the earlier-inserted
\* ones are returned.
C23_StableTies ==
    (ret.op = "similarity_search" /\ ~ret.raised /\ ret.k >= 1
       /\ ~embeddings.none /\ Len(embeddings.rows) = Len(chunks)
       /\ embeddings.w = Len(ret.arg))
    => \A i, j \in 1..Len(chunks) :
          (i < j /\ chunks[i] # chunks[j] /\ C23_Scores[i] = C23_Scores[j]
             /\ C23_Returned(j))
          => (C23_Returned(i) /\ C23_Position(i) < C23_Position(j))

\* ---------------------------------------------------------------------- C24

\* C24: over sequential similarity_search calls the cache never holds more
\* than cache_size entries, and a search that stores a result in a full cache
\* removes the earliest-inserted entry and nothing else.
C24_BoundedOldestFirst ==
    [][/\ Len(search_cache') <= cache_size
       /\ (search_cache' # search_cache /\ Len(search_cache) >= cache_size)
          => /\ Len(search_cache') = cache_size
             /\ SubSeq(search_cache', 1, cache_size - 1) = Tail(search_cache)
             /\ search_cache'[cache_size].key
                  = CacheKey(NanToNumRow(Row(ret'.arg)).v, ret'.k)]_vars

\* a search has put its result into a full cache: the first warm entry is gone
C24_Witness ==
    /\ ret.op = "similarity_search"
    /\ Len(search_cache) = cache_size
    /\ search_cache[cache_size].key = CacheKey(NanToNumRow(Row(ret.arg)).v, ret.k)
    /\ \A i \in 1..cache_size : search_cache[i].key # CacheKey(ReaderQuery, 1)

\* ---------------------------------------------------------------------- C25

\* the positions of the merged list that the result is made of: the first
\* occurrence of each text, of a type the question's category accepts
C25_Kept(merged, question_type) ==
    {j \in 1..Len(merged) :
        /\ \A i \in 1..(j - 1) : merged[i].chunk.text # merged[j].chunk.text
        /\ TypeMatches(question_type, ContentTypeOf(merged[j].chunk))}

\* the n-th smallest element of a set of positions
C25_Nth(positions, n) ==
    CHOOSE j \in positions : Cardinality({x \in positions : x <= j}) = n

\* result is the first five kept elements of merged, in the order of merged
C25_FirstFive(result, merged, question_type) ==
    LET kept == C25_Kept(merged, question_type)
    IN  /\ Len(result) = Min(5, Cardinality(kept))
        /\ \A n \in 1..Len(result) : result[n] = merged[C25_Nth(kept, n)]

\* C25: the list search_relevant_chunks returns is an order-preserving
\* subsequence of the similarity results followed by the keyword results,
\* holding the first occurrence of each text only, and it is the first 5 of
\* these that pass the type filter.
C25_MergedFirstFive ==
    (ret.op = "search_relevant_chunks" /\ loaded)
    => \E o \in SimilarityOutcomes(QueryEmbedding(ret.arg.question), SearchK) :
          C25_FirstFive(ret.val,
                        o.val \o KeywordResult(ret.arg.question, SearchK),
                        ret.arg.question_type)

\* a search whose merged list held a chunk twice and more than five kept
\* elements
C25_Witness ==
    /\ ret.op = "search_relevant_chunks"
    /\ loaded
    /\ Len(ret.val) = 5
    /\ \E o \in SimilarityOutcomes(QueryEmbedding(ret.arg.question), SearchK) :
          LET merged == o.val \o KeywordResult(ret.arg.question, SearchK)
          IN  /\ Cardinality(C25_Kept(merged, ret.arg.question_type)) > 5
              /\ \E i, j \in 1..Len(merged) :
                    /\ i <= Len(o.val) /\ j > Len(o.val)
                    /\ merged[i].chunk.text = merged[j].chunk.text
              /\ \E i, j \in 1..Len(o.val) :
                    i < j /\ merged[i].chunk.text = merged[j].chunk.text

\* ---------------------------------------------------------------------- C26

\* C26: whenever load() returns with loaded = true, the store holds exactly
\* one vector row per loaded chunk, whatever it held in memory before and
\* whatever the artifacts contain.
C26_LoadAligned ==
    (ret.op = "load" /\ loaded)
    => (~embeddings.none /\ Len(embeddings.rows) = Len(chunks))

\* ---------------------------------------------------------------------- C27

\* C27: after any sequence of add, clear, load and similarity_search calls,
\* similarity_search(q, k) returns what a fresh computation on the current
\* chunks and vectors returns; a cached result of an earlier snapshot is
\* never returned (stated for a store holding one vector row per chunk).
C27_CacheCoherent ==
    (ret.op = "similarity_search" /\ loaded /\ chunks # <<>> /\ ~embeddings.none
       /\ Len(embeddings.rows) = Len(chunks))
    => \E o \in SearchOutcomes(NanToNumRow(Row(ret.arg)).v, ret.k) :
          ret.val = o.val

\* ---------------------------------------------------------------------- C28

\* C28: after a save() that reports success the two artifacts describe the
\* same snapshot: an embeddings.npy present in the directory holds the vectors
\* of the store saved, one row per chunk record of chunks.json (stated for a
\* store of at least one chunk holding no vectors or one vector row per
\* chunk).
C28_ArtifactsAgree ==
    (ret.op = "save" /\ ret.rv /\ chunks # <<>>
       /\ (embeddings.none \/ Len(embeddings.rows) = Len(chunks)))
    => /\ chunks_file.exists
       /\ chunks_file.data.chunks = chunks
       /\ embeddings_file.exists
          => /\ embeddings_file.readable
             /\ Len(embeddings_file.data.rows) = Len(chunks_file.data.chunks)

\* ---------------------------------------------------------------------- C29

\* C29: after an ingestion run of ingest.py that produced at least one chunk
\* and completed, VectorStore.load() on the store directory yields
\* loaded = true and holds the ingested chunks.
C29_IngestedThenLoaded ==
    (pc = "done" /\ ret.op = "load" /\ given.chunks # <<>>)
    => /\ loaded
       /\ Len(chunks) = Len(given.chunks)
       /\ \A i \in 1..Len(chunks) :
             /\ chunks[i].text = given.chunks[i].content
             /\ chunks[i].source = given.chunks[i].source

\* ---------------------------------------------------------------------- C30

\* C30: once cancel_task has set a task's status to cancelled, no later step
\* of the worker changes the status to running, completed or failed.
C30_CancelFinal ==
    [][(given.exists /\ given.status = "cancelled")
         => given'.status = "cancelled"]_vars

=============================================================================
